---- MODULE Spec2Model ----
(***************************************************************************)
(* debugpy-attacher: discovery of debugpy processes, the per-user port     *)
(* lock, and the auto-attach / manual-attach flows of several editor       *)
(* windows ("instances") sharing one host.                                 *)
(*                                                                         *)
(* Time is counted in seconds.  An entry's creation timestamp and the      *)
(* activity heartbeat are kept as ages (now - timestamp), saturating one   *)
(* past the threshold they are compared with; a timer is kept as the       *)
(* seconds left until it fires.                                            *)
(***************************************************************************)
EXTENDS Integers, Sequences, FiniteSets, TLC

\* ------------------------------------------------------------------ bounds
\* Concurrent auto-attach ticks one instance may have awaiting something.
MaxTicks == 1
\* Coroutine slots of one instance: one more than MaxTicks, taken only where a
\* scan may overrun the retry interval once more (scanOverrun).
TickSlots == MaxTicks + 1
\* Longest scan output (lines) and longest hinted-port list of a discovery.
MaxLines == 2
\* How often findPythonProcesses finds a debuggee before the debuggees are gone.
MaxFinds == 2

\* --------------------------------------------------------------- constants
\* setTimeout(..., 5000) after a successful silent attach.
ReleaseGraceAuto == 5
\* setTimeout(..., 1000) after a manual attach.
ReleaseGraceManual == 1
\* setTimeout(..., 2000) before auto-attach restarts after a session ends.
RestartCooldown == 2
\* Staleness threshold of a lock entry (the spec fixes no value; a 5 s old
\* entry must not be stale).
StaleThreshold == 5
\* Recency window of the activity heartbeat.
ActivityWindow == 1

Ports == {"5678", "5679"}
NoPort == ""
Users == {"alice", "bob"}
\* w1, w2: two windows of alice; w3: a window of bob; w0: a window of alice
\* that was killed (it runs nothing; it may have left a lock entry behind).
Instances == {"w1", "w2", "w3"}
DeadInstance == "w0"
UserOf(i) == IF i = "w3" THEN "bob" ELSE "alice"

VARIABLES
  live,              \* the instances running on the host
  listening,         \* [Ports -> Users \cup {"none"}]: owner of the process listening on a port
  hideOthers,        \* [Instances -> BOOLEAN]: debugpyAttacher.hideProcessesFromOtherUsers
  finds,             \* how often findPythonProcesses has found a debuggee so far
  debuggeesStay,     \* the debuggees keep listening and every discovery finds them
  scanOverrun,       \* a scan may outlast the retry interval with MaxTicks ticks in progress
  autoAttachSetting, \* the value of the setting debugpyAttacher.autoAttach
  monitoring,        \* [Instances -> BOOLEAN]: debugpyAttacher.enableLiveMonitoring
  commandUsers,      \* the instances whose user invokes debugpy.attachToPort
  disposed,          \* [Instances -> BOOLEAN]: the extension has been deactivated
  \* --- PortLockManager (filesystem and per-process state)
  lockDir,           \* [Users -> set of lock entries]: the per-user lock directories
  heartbeat,         \* [Instances -> age of the last markUserActivity()]
  acq,               \* [Instances -> the tryAcquirePortLock call in progress]
  lastRelease,       \* what the last direct releasePortLock call found: own, foreign, none
  \* --- StatusBarManager
  checkInterval,     \* [Instances -> BOOLEAN]: setInterval(updateStatusBar) is armed
  debugSessionActive,
  isAutoAttaching,
  autoAttachInterval, \* [Instances -> BOOLEAN]: the setInterval handle is armed
  armed,             \* [Instances -> [auto, check]]: intervals set with the host and not cleared
  restartAutoAttachTimeout, \* [Instances -> seconds left, or -1 when not armed]
  attachedPorts,
  connectingPorts,
  ticks,             \* [Instances -> [1..MaxTicks -> tryAutoAttach coroutine]]
  status,            \* [Instances -> updateStatusBar coroutine]
  manual,            \* [Instances -> debugpy.attachToPort command coroutine]
  releaseTimers,     \* [Instances -> set of [port, left]]: pending setTimeout(releasePortLock)
  sessions,          \* [Instances -> set of ports]: the host's debug sessions of the window
  \* --- PythonProcessService.findPythonProcesses (one discovery cycle)
  platform,          \* process.platform of the extension host
  psOutput,          \* [err, lines]: what the ps pipeline gives exec's callback
  launchConfigs,     \* the launch configurations of the workspace folders
  lsofOutput,        \* [Ports -> [err, lines]]: what lsof -i :port gives
  psProcesses,       \* [done, list]: findProcessesViaPsCommand's promise
  lsofProcesses,     \* [done, list]: findProcessesViaLsofFromLaunchConfig's promise
  processes          \* [done, list]: findPythonProcesses' promise

lockVars == <<lockDir, heartbeat, acq, lastRelease>>
engineVars == <<checkInterval, debugSessionActive, isAutoAttaching, autoAttachInterval, armed,
                restartAutoAttachTimeout, attachedPorts, connectingPorts, ticks,
                status, manual, releaseTimers, sessions>>
worldVars == <<live, listening, hideOthers, monitoring, commandUsers, disposed,
              debuggeesStay, scanOverrun, autoAttachSetting>>
discoveryVars == <<platform, psOutput, launchConfigs, lsofOutput, psProcesses, lsofProcesses, processes>>
vars == <<worldVars, finds, lockVars, engineVars, discoveryVars>>

Min(a, b) == IF a < b THEN a ELSE b
Range(s) == {s[k] : k \in 1..Len(s)}

\* =====================================================================
\* PythonProcessService: one discovery cycle (POSIX)
\* =====================================================================
\* The user the extension host runs as in a discovery cycle checked alone.
DiscoveryUser == "alice"

\* Output lines are sequences of whitespace-separated fields.
ScanLines ==
  { <<"alice", "4821", "python", "-m", "debugpy", "--listen", "5678", "app.py">>,
    <<"alice", "4821", "python", "-m", "debugpy", "--port", "5678">>,
    <<"bob", "3310", "python", "-m", "debugpy", "--port", "5679", "app.py">>,
    <<"root", "5000", "python", "-m", "debugpy", "--port", "5678">>,
    <<"alice", "77">> }
LsofHeader == <<"COMMAND", "PID", "USER", "FD", "TYPE", "NAME">>
LsofReports ==
  { <<>>,
    <<LsofHeader, <<"docker-proxy", "3310", "root", "4u", "IPv4", "*:port", "(LISTEN)">> >>,
    <<LsofHeader, <<"python", "4821", "alice", "7u", "IPv4", "a->b", "(ESTABLISHED)">>,
                  <<"python", "9001", "alice", "5u", "IPv4", "*:port", "(LISTEN)">> >>,
    <<LsofHeader, <<"(LISTEN)">> >> }

\* The digits a field starts with (the capture of \d+ at its start), "" if none.
LeadingDigits(field) ==
  IF field \in {"5678", "5679", "4821", "3310", "5000", "9001", "77"} THEN field ELSE ""

\* command.match(/--port\s+(\d+)/): the digits after the first --port flag that
\* is followed by digits; "" when there is no match.
RECURSIVE PortFlagMatch(_, _)
PortFlagMatch(command, k) ==
  IF k >= Len(command) THEN ""
  ELSE IF command[k] = "--port" /\ LeadingDigits(command[k + 1]) # ""
       THEN LeadingDigits(command[k + 1])
       ELSE PortFlagMatch(command, k + 1)

\* A parse that does not consult the ports already seen.
parseUnixProcessNoDedup(line, seenPorts, currentUser) ==
  IF Len(line) < 3 THEN <<>>
  ELSE LET command == SubSeq(line, 3, Len(line))
           port == PortFlagMatch(command, 1)
       IN IF port # ""
          THEN << [pid |-> line[2], port |-> port, user |-> line[1],
                   isCurrentUser |-> (line[1] = currentUser)] >>
          ELSE <<>>

\* parseUnixProcess: <<>> for null, <<process>> otherwise.
parseUnixProcess(line, seenPorts, currentUser) ==
  IF Len(line) < 3 THEN <<>>
  ELSE LET command == SubSeq(line, 3, Len(line))
           port == PortFlagMatch(command, 1)
       IN IF port # "" /\ port \notin seenPorts
          THEN << [pid |-> line[2], port |-> port, user |-> line[1],
                   isCurrentUser |-> (line[1] = currentUser)] >>
          ELSE <<>>

RECURSIVE ParseScan(_, _, _, _)
ParseScan(lines, seenPorts, acc, currentUser) ==
  IF lines = <<>> THEN acc
  ELSE LET r == parseUnixProcess(Head(lines), seenPorts, currentUser)
       IN IF r = <<>>
          THEN ParseScan(Tail(lines), seenPorts, acc, currentUser)
          ELSE ParseScan(Tail(lines), seenPorts \cup {r[1].port}, acc \o r, currentUser)

findProcessesViaPsCommand(out, currentUser) ==
  IF out.err \/ out.lines = <<>> THEN <<>>
  ELSE ParseScan(out.lines, {}, <<>>, currentUser)

\* A reading of the launch configurations that takes the port of every
\* configuration, marked debugpyAttacher or not.
RECURSIVE getPortsFromAnyLaunchConfig(_, _)
getPortsFromAnyLaunchConfig(configs, ports) ==
  IF configs = <<>> THEN ports
  ELSE LET c == Head(configs)
           port == IF c.connectPort # "" THEN c.connectPort ELSE c.port
       IN IF port # "" /\ port \notin Range(ports)
          THEN getPortsFromAnyLaunchConfig(Tail(configs), Append(ports, port))
          ELSE getPortsFromAnyLaunchConfig(Tail(configs), ports)

\* getPortsFromLaunchConfig: the ports of the marked configurations, each once.
RECURSIVE getPortsFromLaunchConfig(_, _)
getPortsFromLaunchConfig(configs, ports) ==
  IF configs = <<>> THEN ports
  ELSE LET c == Head(configs)
           port == IF c.connectPort # "" THEN c.connectPort ELSE c.port
       IN IF c.debugpyAttacher /\ port # "" /\ port \notin Range(ports)
          THEN getPortsFromLaunchConfig(Tail(configs), Append(ports, port))
          ELSE getPortsFromLaunchConfig(Tail(configs), ports)

parseLsofLine(line, port, currentUser) ==
  IF Len(line) >= 3
  THEN << [pid |-> line[2], port |-> port, user |-> line[3],
           isCurrentUser |-> (line[3] = currentUser)] >>
  ELSE <<>>

\* checkPortWithLsof: the first line after the header that includes LISTEN and parses.
RECURSIVE FirstListener(_, _, _, _)
FirstListener(lines, k, port, currentUser) ==
  IF k > Len(lines) THEN <<>>
  ELSE IF (\E f \in Range(lines[k]) : f = "(LISTEN)")
          /\ parseLsofLine(lines[k], port, currentUser) # <<>>
       THEN parseLsofLine(lines[k], port, currentUser)
       ELSE FirstListener(lines, k + 1, port, currentUser)

checkPortWithLsof(out, port, currentUser) ==
  IF out.err \/ out.lines = <<>> THEN <<>>
  ELSE FirstListener(out.lines, 2, port, currentUser)

\* A probe loop that gives up at the first port whose lsof command fails.
RECURSIVE ProbePortsFailFast(_, _, _)
ProbePortsFailFast(ports, outs, currentUser) ==
  IF ports = <<>> \/ outs[Head(ports)].err THEN <<>>
  ELSE checkPortWithLsof(outs[Head(ports)], Head(ports), currentUser)
       \o ProbePortsFailFast(Tail(ports), outs, currentUser)

RECURSIVE ProbePorts(_, _, _)
ProbePorts(ports, outs, currentUser) ==
  IF ports = <<>> THEN <<>>
  ELSE checkPortWithLsof(outs[Head(ports)], Head(ports), currentUser)
       \o ProbePorts(Tail(ports), outs, currentUser)

\* lsof is skipped on Windows.
findProcessesViaLsofFromLaunchConfig(plat, configs, outs, currentUser) ==
  IF plat = "win32" THEN <<>>
  ELSE ProbePorts(getPortsFromLaunchConfig(configs, <<>>), outs, currentUser)

\* One loop of findPythonProcesses over a result list: every process whose port
\* is not in seenPorts is pushed with its source.  st = [processes, seenPorts].
RECURSIVE AddUnseen(_, _, _)
AddUnseen(st, list, source) ==
  IF list = <<>> THEN st
  ELSE IF Head(list).port \in st.seenPorts
       THEN AddUnseen(st, Tail(list), source)
       ELSE AddUnseen([processes |-> Append(st.processes,
                                       [pid |-> Head(list).pid, port |-> Head(list).port,
                                        user |-> Head(list).user,
                                        isCurrentUser |-> Head(list).isCurrentUser,
                                        source |-> source]),
                       seenPorts |-> st.seenPorts \cup {Head(list).port}],
                      Tail(list), source)

\* A merge that pushes the lsof results first (the probe would win a collision).
MergeProbeFirst(ps, lsof) ==
  AddUnseen(AddUnseen([processes |-> <<>>, seenPorts |-> {}], lsof, "lsof"), ps, "ps").processes

\* findPythonProcesses, once both promises have resolved.
MergeProcesses(ps, lsof) ==
  AddUnseen(AddUnseen([processes |-> <<>>, seenPorts |-> {}], ps, "ps"), lsof, "lsof").processes

SeqsUpTo(S, n) == UNION {[1..k -> S] : k \in 0..n}
Pending == [done |-> FALSE, list |-> <<>>]
LaunchConfigs ==
  { [debugpyAttacher |-> TRUE, connectPort |-> "5678", port |-> ""],
    [debugpyAttacher |-> TRUE, connectPort |-> "", port |-> "5679"],
    [debugpyAttacher |-> FALSE, connectPort |-> "5679", port |-> ""],
    [debugpyAttacher |-> TRUE, connectPort |-> "", port |-> ""] }

\* =====================================================================
\* PortLockManager: a lock entry is a file of the acquirer's per-user lock
\* directory, named after the port; its age is now - its creation time.
\* =====================================================================
\* One lock directory for every user of the host.
LockDirShared(i) == "alice"
\* /tmp/debugpy-attacher-locks-<user>
LockDirOf(i) == UserOf(i)
\* An entry name that encodes the holder next to the port.
LockNamePerHolder(i, port) == <<port, i>>
\* The entry's name encodes the port (and nothing else).
LockName(i, port) == <<port>>

NoCall == [active |-> FALSE, port |-> NoPort, step |-> "", caller |-> "", slot |-> 0,
           ok |-> FALSE, path |-> "", raced |-> FALSE]
IdleTick == [phase |-> "idle", port |-> NoPort, rest |-> <<>>]
IdleManual == [phase |-> "idle", proc |-> <<>>, list |-> <<>>]

\* The age of the liveness marker of a holder; a killed window marks nothing.
HeartbeatAge(h) == IF h \in live THEN heartbeat[h] ELSE ActivityWindow + 1

\* The staleness rule: the entry is older than the threshold and no holder of an
\* entry of the directory has marked user activity inside the recency window.
Quiet(dir) == \A h \in dir : HeartbeatAge(h.owner) > ActivityWindow
IsStale(e, dir) == e.age > StaleThreshold /\ Quiet(dir)

EntriesNamed(dir, name) == {e \in dir : e.name = name}
NewEntry(i, port) == [name |-> LockName(i, port), port |-> port, owner |-> i, age |-> 0]

\* ---------------------------------------------------------------------
\* The state one instance's code reads and writes, as one record, so that a
\* handler is a function from record to record.
\* ---------------------------------------------------------------------
Local(i) ==
  [ check |-> checkInterval[i],
    dsa |-> debugSessionActive[i], auto |-> isAutoAttaching[i],
    interval |-> autoAttachInterval[i], armed |-> armed[i],
    restart |-> restartAutoAttachTimeout[i],
    attached |-> attachedPorts[i], connecting |-> connectingPorts[i],
    ticks |-> ticks[i], status |-> status[i], manual |-> manual[i],
    timers |-> releaseTimers[i], sessions |-> sessions[i],
    call |-> acq[i], dir |-> lockDir[LockDirOf(i)], hb |-> heartbeat[i] ]

ApplyLocal(i, L) ==
  /\ checkInterval' = [checkInterval EXCEPT ![i] = L.check]
  /\ debugSessionActive' = [debugSessionActive EXCEPT ![i] = L.dsa]
  /\ isAutoAttaching' = [isAutoAttaching EXCEPT ![i] = L.auto]
  /\ autoAttachInterval' = [autoAttachInterval EXCEPT ![i] = L.interval]
  /\ armed' = [armed EXCEPT ![i] = L.armed]
  /\ restartAutoAttachTimeout' = [restartAutoAttachTimeout EXCEPT ![i] = L.restart]
  /\ attachedPorts' = [attachedPorts EXCEPT ![i] = L.attached]
  /\ connectingPorts' = [connectingPorts EXCEPT ![i] = L.connecting]
  /\ ticks' = [ticks EXCEPT ![i] = L.ticks]
  /\ status' = [status EXCEPT ![i] = L.status]
  /\ manual' = [manual EXCEPT ![i] = L.manual]
  /\ releaseTimers' = [releaseTimers EXCEPT ![i] = L.timers]
  /\ sessions' = [sessions EXCEPT ![i] = L.sessions]
  /\ lockDir' = [lockDir EXCEPT ![LockDirOf(i)] = L.dir]
  /\ heartbeat' = [heartbeat EXCEPT ![i] = L.hb]

ApplyEngine(i, L) ==
  /\ ApplyLocal(i, L)
  /\ UNCHANGED <<worldVars, discoveryVars>>

Apply(i, L) ==
  /\ ApplyEngine(i, L)
  /\ acq' = [acq EXCEPT ![i] = L.call]
  /\ UNCHANGED <<lastRelease, finds>>

\* The continuation of a findPythonProcesses call that resolved with procs.
ApplyFound(i, L, procs) ==
  /\ ApplyEngine(i, L)
  /\ acq' = [acq EXCEPT ![i] = L.call]
  /\ finds' = finds + (IF procs = <<>> \/ debuggeesStay THEN 0 ELSE 1)
  /\ UNCHANGED lastRelease

\* ------------------------------------------------------- PortLockManager API
markUserActivity(L) == [L EXCEPT !.hb = 0]

\* A release that unlinks the port's entry whoever owns it.
releaseAnyOwner(L, i, port) ==
  [L EXCEPT !.dir = @ \ EntriesNamed(L.dir, LockName(i, port))]

\* releasePortLock: removes the port's entry if this instance owns it; a missing
\* or foreign-owned entry is left alone.
releasePortLock(L, i, port) ==
  [L EXCEPT !.dir = @ \ {e \in EntriesNamed(L.dir, LockName(i, port)) : e.owner = i}]

\* cleanup: removes every entry this instance holds.
cleanup(L, i) == [L EXCEPT !.dir = {e \in @ : e.owner # i}]

\* The first step of tryAcquirePortLock(port), entered by the caller.
BeginAcquire(L, port, caller, slot) ==
  [L EXCEPT !.call = [active |-> TRUE, port |-> port, step |-> "create",
                      caller |-> caller, slot |-> slot, ok |-> FALSE, path |-> "",
                      raced |-> FALSE]]

\* =====================================================================
\* StatusBarManager: the handlers, each from one await to the next
\* =====================================================================
\* vscode.debug.activeDebugSession of the window
ActiveDebugSession(L) == L.sessions # {}

FreeSlots(L) ==
  {k \in 1..(IF scanOverrun THEN TickSlots ELSE MaxTicks) : L.ticks[k].phase = "idle"}
LowestFree(L) == CHOOSE k \in FreeSlots(L) : \A m \in FreeSlots(L) : k <= m
EndTick(L, k) == [L EXCEPT !.ticks[k] = IdleTick]

stopAutoAttach(L) ==
  [L EXCEPT !.interval = FALSE,
            !.armed.auto = IF L.interval THEN @ - 1 ELSE @,
            !.restart = {t \in @ : ~t.held},
            !.auto = FALSE, !.attached = {}, !.connecting = {}]

\* stopMonitoring, and dispose, which adds nothing the model keeps.
stopMonitoring(L) ==
  stopAutoAttach([L EXCEPT !.check = FALSE,
                           !.armed.check = IF L.check THEN @ - 1 ELSE @])

\* tryAutoAttach up to its await of findPythonProcesses.  A tick for which no
\* coroutine slot is left ends as one whose discovery found nothing.
tryAutoAttach(L) ==
  IF L.dsa \/ ActiveDebugSession(L) \/ FreeSlots(L) = {} THEN L
  ELSE [L EXCEPT !.ticks[LowestFree(L)] = [IdleTick EXCEPT !.phase = "discover"]]

\* A start that arms the interval whether or not auto-attach is already on.
startAutoAttachRearming(L) ==
  IF L.dsa THEN L
  ELSE tryAutoAttach([L EXCEPT !.auto = TRUE, !.attached = {}, !.connecting = {},
                               !.interval = TRUE, !.armed.auto = @ + 1])

startAutoAttach(L) ==
  IF L.auto \/ L.dsa THEN L
  ELSE tryAutoAttach([L EXCEPT !.auto = TRUE, !.attached = {}, !.connecting = {},
                               !.interval = TRUE, !.armed.auto = @ + 1])

\* silentAttach up to the first filesystem call of tryAcquirePortLock.
silentAttach(L, k, proc, rest) ==
  BeginAcquire([L EXCEPT !.connecting = @ \cup {proc.port},
                         !.ticks[k] = [phase |-> "acquire", port |-> proc.port,
                                       rest |-> rest]],
               proc.port, "auto", k)

\* The for loop of tryAutoAttach from the process at the head of procs.
RECURSIVE AttachLoop(_, _, _)
AttachLoop(L, k, procs) ==
  IF procs = <<>> THEN EndTick(L, k)
  ELSE IF Head(procs).port \in L.attached \/ Head(procs).port \in L.connecting
       THEN AttachLoop(L, k, Tail(procs))
       ELSE IF L.dsa \/ ActiveDebugSession(L)
            THEN EndTick(L, k)
            ELSE silentAttach(L, k, Head(procs), Tail(procs))

\* tryAutoAttach from the resolution of findPythonProcesses.
tryAutoAttachDiscovered(L, k, procs) ==
  AttachLoop([L EXCEPT !.attached = @ \cap {procs[n].port : n \in 1..Len(procs)}],
             k, procs)

\* A silentAttach that goes on to startDebugging whatever tryAcquirePortLock said.
silentAttachIgnoringLock(L, i, k, ok) ==
  IF L.dsa \/ ActiveDebugSession(L)
  THEN AttachLoop([releasePortLock(L, i, L.ticks[k].port)
                     EXCEPT !.connecting = @ \ {L.ticks[k].port}],
                  k, L.ticks[k].rest)
  ELSE [L EXCEPT !.ticks[k].phase = "attaching"]

\* A loop that gives the tick up when tryAcquirePortLock returns false.
silentAttachAcquiredEndingTick(L, i, k, ok) ==
  IF ~ok
  THEN EndTick([L EXCEPT !.connecting = @ \ {L.ticks[k].port}], k)
  ELSE IF L.dsa \/ ActiveDebugSession(L)
       THEN AttachLoop([releasePortLock(L, i, L.ticks[k].port)
                          EXCEPT !.connecting = @ \ {L.ticks[k].port}],
                       k, L.ticks[k].rest)
       ELSE [L EXCEPT !.ticks[k].phase = "attaching"]

\* A silentAttach that leaves the port in connectingPorts when
\* tryAcquirePortLock returns false.
silentAttachAcquiredLeavingPort(L, i, k, ok) ==
  IF ~ok
  THEN AttachLoop(L, k, L.ticks[k].rest)
  ELSE IF L.dsa \/ ActiveDebugSession(L)
       THEN AttachLoop([releasePortLock(L, i, L.ticks[k].port)
                          EXCEPT !.connecting = @ \ {L.ticks[k].port}],
                       k, L.ticks[k].rest)
       ELSE [L EXCEPT !.ticks[k].phase = "attaching"]

\* silentAttach from the return of tryAcquirePortLock to startDebugging.
silentAttachAcquired(L, i, k, ok) ==
  IF ~ok
  THEN AttachLoop([L EXCEPT !.connecting = @ \ {L.ticks[k].port}], k, L.ticks[k].rest)
  ELSE IF L.dsa \/ ActiveDebugSession(L)
       THEN AttachLoop([releasePortLock(L, i, L.ticks[k].port)
                          EXCEPT !.connecting = @ \ {L.ticks[k].port}],
                       k, L.ticks[k].rest)
       ELSE [L EXCEPT !.ticks[k].phase = "attaching"]

\* A loop body that goes on to the next process after a successful attach.
silentAttachResolvedContinuing(L, i, k, success) ==
  LET port == L.ticks[k].port
      L1 == [L EXCEPT !.connecting = @ \ {port}]
  IN IF success
     THEN AttachLoop([L1 EXCEPT !.timers = @ \cup {[port |-> port, left |-> ReleaseGraceAuto]},
                                !.attached = @ \cup {port}], k, L.ticks[k].rest)
     ELSE AttachLoop(releasePortLock(L1, i, port), k, L.ticks[k].rest)

\* Then-callbacks that keep the lock of a failed attach (until a timer or
\* the staleness rule removes it).
silentAttachResolvedKeepingLock(L, i, k, success) ==
  LET port == L.ticks[k].port
      L1 == [L EXCEPT !.connecting = @ \ {port}]
  IN IF success
     THEN EndTick(stopAutoAttach(
            [L1 EXCEPT !.timers = @ \cup {[port |-> port, left |-> ReleaseGraceAuto]},
                       !.attached = @ \cup {port}]), k)
     ELSE AttachLoop(L1, k, L.ticks[k].rest)

\* silentAttach's then-callbacks and the rest of the loop body of tryAutoAttach.
silentAttachResolved(L, i, k, success) ==
  LET port == L.ticks[k].port
      L1 == [L EXCEPT !.connecting = @ \ {port}]
  IN IF success
     THEN EndTick(stopAutoAttach(
            [L1 EXCEPT !.timers = @ \cup {[port |-> port, left |-> ReleaseGraceAuto]},
                       !.attached = @ \cup {port}]), k)
     ELSE AttachLoop(releasePortLock(L1, i, port), k, L.ticks[k].rest)

\* A session start that also abandons the attach requests under way.
onDebugSessionStartCancelling(L) ==
  [stopAutoAttach([L EXCEPT !.dsa = TRUE]) EXCEPT !.ticks = [k \in 1..TickSlots |-> IdleTick]]

\* A session start that records the session and leaves auto-attach running.
onDebugSessionStartKeepingTimer(L) == [L EXCEPT !.dsa = TRUE]

onDebugSessionStart(L) ==
  IF L.auto THEN stopAutoAttach([L EXCEPT !.dsa = TRUE]) ELSE [L EXCEPT !.dsa = TRUE]

\* config.isAutoAttachEnabled()
AutoAttachEnabled == autoAttachSetting

onDebugSessionEnd(L, port) ==
  LET L1 == [L EXCEPT !.dsa = FALSE, !.attached = @ \ {port},
                      !.connecting = @ \ {port}]
  IN IF AutoAttachEnabled /\ ~L1.auto
     THEN [L1 EXCEPT !.restart = {[t EXCEPT !.held = FALSE] : t \in @}
                                 \cup {[left |-> RestartCooldown, held |-> TRUE]}]
     ELSE L1

\* updateStatusBar from the resolution of findPythonProcesses.
updateStatusBarDiscovered(L, procs) ==
  IF procs # <<>> /\ AutoAttachEnabled /\ ~L.auto
  THEN startAutoAttach([L EXCEPT !.status = "idle"])
  ELSE [L EXCEPT !.status = "idle"]

\* startMonitoring, with the values the settings have when it runs; its
\* updateStatusBar call awaits findPythonProcesses.
startMonitoring(L, liveOn, autoOn) ==
  LET L1 == [markUserActivity(L) EXCEPT !.dsa = ActiveDebugSession(L),
                                        !.status = "discover",
                                        !.check = IF liveOn THEN TRUE ELSE @,
                                        !.armed.check = IF liveOn THEN @ + 1 ELSE @]
  IN IF autoOn /\ ~L1.dsa THEN startAutoAttach(L1) ELSE L1

restartMonitoring(L, liveOn, autoOn) ==
  startMonitoring([stopMonitoring(L) EXCEPT !.attached = {}, !.connecting = {}],
                  liveOn, autoOn)

\* =====================================================================
\* extension.ts: the debugpy.attachToPort command
\* =====================================================================
\* handleMultipleProcessSelection from the pick (and the warning) to the first
\* filesystem call of tryAcquirePortLock.
manualAcquire(L, proc) ==
  BeginAcquire([L EXCEPT !.manual = [phase |-> "acquire", proc |-> <<proc>>,
                                     list |-> <<>>]],
               proc.port, "manual", 0)

\* An attachToDebugger that asks for no confirmation of its own.
manualAcquiredUnconfirmed(L, i, ok) ==
  IF ~ok THEN [L EXCEPT !.manual = IdleManual]
  ELSE [L EXCEPT !.manual.phase = "attaching"]

\* handleMultipleProcessSelection from the return of tryAcquirePortLock into
\* attachToDebugger, up to its first await.
manualAcquired(L, i, ok) ==
  IF ~ok THEN [L EXCEPT !.manual = IdleManual]
  ELSE IF ~L.manual.proc[1].isCurrentUser
       THEN [L EXCEPT !.manual.phase = "confirm"]
       ELSE [L EXCEPT !.manual.phase = "attaching"]

\* attachToDebugger's own warning answered.
manualConfirmed(L, yes) ==
  IF yes THEN [L EXCEPT !.manual.phase = "attaching"]
  ELSE [L EXCEPT !.manual = IdleManual,
                 !.timers = @ \cup {[port |-> L.manual.proc[1].port,
                                     left |-> ReleaseGraceManual]}]

\* A manual flow whose catch branch does not release the lock.
manualResolvedKeepingLock(L, i, success) ==
  IF success
  THEN [L EXCEPT !.manual = IdleManual,
                 !.timers = @ \cup {[port |-> L.manual.proc[1].port,
                                     left |-> ReleaseGraceManual]}]
  ELSE [L EXCEPT !.manual = IdleManual]

\* attachToDebugger from the resolution of startDebugging, and the try/catch
\* of handleMultipleProcessSelection around it.
manualResolved(L, i, success) ==
  IF success
  THEN [L EXCEPT !.manual = IdleManual,
                 !.timers = @ \cup {[port |-> L.manual.proc[1].port,
                                     left |-> ReleaseGraceManual]}]
  ELSE [releasePortLock(L, i, L.manual.proc[1].port) EXCEPT !.manual = IdleManual]

\* The continuation of the caller of tryAcquirePortLock.
AfterAcquire(L, i, caller, slot, ok) ==
  IF caller = "auto" THEN silentAttachAcquired(L, i, slot, ok)
  ELSE IF caller = "manual" THEN manualAcquired(L, i, ok)
  ELSE L

\* =====================================================================
\* Actions of the host with several windows
\* =====================================================================
PortOrder == <<"5678", "5679">>
Ready(i) == i \in live /\ ~acq[i].active

\* What findPythonProcesses returns to instance i when the scan sees every
\* listening process, after the hideProcessesFromOtherUsers filter.
Visible(i) ==
  LET all == [n \in 1..Len(PortOrder) |->
                [port |-> PortOrder[n], user |-> listening[PortOrder[n]],
                 isCurrentUser |-> (listening[PortOrder[n]] = UserOf(i))]]
  IN SelectSeq(all, LAMBDA q : q.user # "none" /\ (hideOthers[i] => q.isCurrentUser))

\* The results a findPythonProcesses call of instance i can resolve with: the
\* visible debuggees while they run, nothing once they are gone or on failure.
Found(i) ==
  IF debuggeesStay THEN {Visible(i)}
  ELSE IF finds < MaxFinds THEN {Visible(i), <<>>} ELSE {<<>>}

\* Any editor-observable interaction (extension.ts setupUserActivityTracking).
UserActivity(i) ==
  /\ Ready(i) /\ ~disposed[i] /\ heartbeat[i] # 0
  /\ Apply(i, markUserActivity(Local(i)))

\* The setInterval callback of startAutoAttach.
AutoAttachTimerFires(i) ==
  /\ Ready(i) /\ armed[i].auto > 0
  /\ debugSessionActive[i] \/ FreeSlots(Local(i)) # {}
  /\ Apply(i, IF debugSessionActive[i] THEN stopAutoAttach(Local(i))
              ELSE tryAutoAttach(Local(i)))

\* findPythonProcesses resolves for a tick (with nothing when the scan failed).
TickDiscoveryResolves(i, k) ==
  /\ Ready(i) /\ ticks[i][k].phase = "discover"
  /\ \E procs \in Found(i) :
       ApplyFound(i, tryAutoAttachDiscovered(Local(i), k, procs), procs)

\* The statusbar's setInterval(updateStatusBar, 3000) callback.
StatusTimerFires(i) ==
  /\ Ready(i) /\ armed[i].check > 0 /\ status[i] = "idle"
  /\ Apply(i, [Local(i) EXCEPT !.status = "discover"])

StatusDiscoveryResolves(i) ==
  /\ Ready(i) /\ status[i] = "discover"
  /\ \E procs \in Found(i) :
       ApplyFound(i, updateStatusBarDiscovered(Local(i), procs), procs)

\* ------------------------------------------- tryAcquirePortLock, step by step
\* The file operation of this step settles the outcome of the call.
Decide(i, L, ok, path) ==
  Apply(i, [L EXCEPT !.call.step = "return", !.call.ok = ok, !.call.path = path])

\* The call returns to its caller, whose continuation runs up to its next await.
AcquireReturns(i) ==
  /\ i \in live /\ acq[i].active /\ acq[i].step = "return"
  /\ LET c == acq[i]
     IN Apply(i, AfterAcquire([Local(i) EXCEPT !.call = NoCall], i, c.caller, c.slot, c.ok))

\* A creation that does not fail when the entry exists (check-then-write).
CreateOverwriting(i, L, fsok) ==
  IF ~fsok THEN Decide(i, L, FALSE, "fserror")
  ELSE Decide(i, [L EXCEPT !.dir = (@ \ EntriesNamed(L.dir, LockName(i, L.call.port)))
                                   \cup {NewEntry(i, L.call.port)}],
              TRUE, "created")

\* The atomic create-if-absent; on conflict the call goes on to judge the entry.
CreateIfAbsent(i, L, fsok) ==
  IF ~fsok THEN Decide(i, L, FALSE, "fserror")
  ELSE IF EntriesNamed(L.dir, LockName(i, L.call.port)) = {}
       THEN Decide(i, [L EXCEPT !.dir = @ \cup {NewEntry(i, L.call.port)}],
                   TRUE, "created")
       ELSE Apply(i, [L EXCEPT !.call.step = "judge"])

AcquireCreate(i) ==
  /\ i \in live /\ acq[i].active /\ acq[i].step = "create"
  /\ \E fsok \in BOOLEAN : CreateIfAbsent(i, Local(i), fsok)

\* A judgement by the heartbeat alone.
JudgeIgnoringAge(i, L, e) ==
  IF Quiet(L.dir) THEN Apply(i, [L EXCEPT !.call.step = "unlink"])
  ELSE Decide(i, L, FALSE, "held")

\* The staleness judgement of the existing entry e.
Judge(i, L, e) ==
  IF IsStale(e, L.dir) THEN Apply(i, [L EXCEPT !.call.step = "unlink"])
  ELSE Decide(i, L, FALSE, "held")

AcquireJudge(i) ==
  /\ i \in live /\ acq[i].active /\ acq[i].step = "judge"
  /\ \E fsok \in BOOLEAN :
       LET L == Local(i)
           there == EntriesNamed(L.dir, LockName(i, L.call.port))
       IN IF ~fsok \/ there = {}
          THEN Decide(i, L, FALSE, "fserror")
          ELSE \E e \in there : Judge(i, L, e)

\* The entry is deleted; the calls of the other holders of the directory that
\* are in progress on the port have raced with a reclaim from then on.
Unlink(i, L, there) ==
  /\ ApplyEngine(i, [L EXCEPT !.dir = @ \ there])
  /\ acq' = [j \in Instances |->
               IF j = i THEN [L.call EXCEPT !.step = "recreate"]
               ELSE IF acq[j].active /\ acq[j].port = L.call.port
                       /\ LockDirOf(j) = LockDirOf(i)
                    THEN [acq[j] EXCEPT !.raced = TRUE]
                    ELSE acq[j]]
  /\ UNCHANGED <<lastRelease, finds>>

\* Force-reclaim, first half: the stale entry is deleted.
AcquireUnlink(i) ==
  /\ i \in live /\ acq[i].active /\ acq[i].step = "unlink"
  /\ \E fsok \in BOOLEAN :
       LET L == Local(i)
           there == EntriesNamed(L.dir, LockName(i, L.call.port))
       IN IF ~fsok \/ there = {}
          THEN Decide(i, L, FALSE, "fserror")
          ELSE Unlink(i, L, there)

\* A re-creation that keeps the reclaimed entry's creation time.
RecreateKeepingAge(i, L, fsok) ==
  IF ~fsok \/ EntriesNamed(L.dir, LockName(i, L.call.port)) # {}
  THEN Decide(i, L, FALSE, "fserror")
  ELSE Decide(i, [L EXCEPT !.dir = @ \cup {[NewEntry(i, L.call.port)
                                              EXCEPT !.age = StaleThreshold + 1]}],
              TRUE, "reclaimed")

\* Force-reclaim, second half: the entry is created anew.
Recreate(i, L, fsok) ==
  IF ~fsok \/ EntriesNamed(L.dir, LockName(i, L.call.port)) # {}
  THEN Decide(i, L, FALSE, "fserror")
  ELSE Decide(i, [L EXCEPT !.dir = @ \cup {NewEntry(i, L.call.port)}],
              TRUE, "reclaimed")

AcquireRecreate(i) ==
  /\ i \in live /\ acq[i].active /\ acq[i].step = "recreate"
  /\ \E fsok \in BOOLEAN : Recreate(i, Local(i), fsok)

\* ----------------------------------------------- the host debug-launch interface
\* The host starts the session of a dispatched attach: onDidStartDebugSession
\* is delivered before startDebugging resolves.
AutoSessionStarts(i, k) ==
  /\ Ready(i) /\ ticks[i][k].phase = "attaching"
  /\ LET L == Local(i)
         L1 == [L EXCEPT !.ticks[k].phase = "started",
                         !.sessions = @ \cup {L.ticks[k].port}]
     IN Apply(i, IF disposed[i] THEN L1 ELSE onDebugSessionStart(L1))

AutoAttachSucceeds(i, k) ==
  /\ Ready(i) /\ ticks[i][k].phase = "started"
  /\ Apply(i, silentAttachResolved(Local(i), i, k, TRUE))

\* startDebugging resolves false or rejects.
AutoAttachFails(i, k) ==
  /\ Ready(i) /\ ticks[i][k].phase = "attaching"
  /\ Apply(i, silentAttachResolved(Local(i), i, k, FALSE))

\* onDidTerminateDebugSession for a session of the window.
SessionEnds(i, port) ==
  /\ Ready(i) /\ port \in sessions[i]
  /\ LET L1 == [Local(i) EXCEPT !.sessions = @ \ {port}]
     IN Apply(i, IF disposed[i] THEN L1 ELSE onDebugSessionEnd(L1, port))

\* setTimeout(() => releasePortLock(port), ...) fires.
ReleaseTimerFires(i, t) ==
  /\ Ready(i) /\ t \in releaseTimers[i] /\ t.left = 0
  /\ Apply(i, releasePortLock([Local(i) EXCEPT !.timers = @ \ {t}], i, t.port))

\* The restart timeout of onDebugSessionEnd fires.
RestartTimeoutFires(i, t) ==
  /\ Ready(i) /\ t \in restartAutoAttachTimeout[i] /\ t.left = 0
  /\ Apply(i, startAutoAttach([Local(i) EXCEPT !.restart = @ \ {t}]))

\* ------------------------------------------------- debugpy.attachToPort command
AttachCommand(i) ==
  /\ Ready(i) /\ ~disposed[i] /\ i \in commandUsers /\ manual[i].phase = "idle"
  /\ Apply(i, [markUserActivity(Local(i)) EXCEPT !.manual.phase = "discover"])

ManualDiscoveryResolves(i) ==
  /\ Ready(i) /\ manual[i].phase = "discover"
  /\ \E procs \in Found(i) :
       ApplyFound(i, IF procs = <<>> THEN [Local(i) EXCEPT !.manual = IdleManual]
                     ELSE [Local(i) EXCEPT !.manual = [phase |-> "pick", proc |-> <<>>,
                                                       list |-> procs]], procs)

\* The quick pick is answered: with one of the processes, or dismissed.
QuickPick(i) ==
  /\ Ready(i) /\ manual[i].phase = "pick"
  /\ \/ Apply(i, [Local(i) EXCEPT !.manual = IdleManual])
     \/ \E n \in 1..Len(manual[i].list) :
          LET proc == manual[i].list[n]
          IN Apply(i, IF ~proc.isCurrentUser
                      THEN [Local(i) EXCEPT !.manual = [phase |-> "warn",
                                                        proc |-> <<proc>>, list |-> <<>>]]
                      ELSE manualAcquire(Local(i), proc))

\* The other-user warning of handleMultipleProcessSelection is answered.
WarnAnswered(i) ==
  /\ Ready(i) /\ manual[i].phase = "warn"
  /\ \E yes \in BOOLEAN :
       Apply(i, IF yes THEN manualAcquire(Local(i), manual[i].proc[1])
                ELSE [Local(i) EXCEPT !.manual = IdleManual])

ConfirmAnswered(i) ==
  /\ Ready(i) /\ manual[i].phase = "confirm"
  /\ \E yes \in BOOLEAN : Apply(i, manualConfirmed(Local(i), yes))

ManualSessionStarts(i) ==
  /\ Ready(i) /\ manual[i].phase = "attaching"
  /\ LET L == Local(i)
         L1 == [L EXCEPT !.manual.phase = "started",
                         !.sessions = @ \cup {L.manual.proc[1].port}]
     IN Apply(i, IF disposed[i] THEN L1 ELSE onDebugSessionStart(L1))

ManualAttachSucceeds(i) ==
  /\ Ready(i) /\ manual[i].phase = "started"
  /\ Apply(i, manualResolved(Local(i), i, TRUE))

ManualAttachFails(i) ==
  /\ Ready(i) /\ manual[i].phase = "attaching"
  /\ Apply(i, manualResolved(Local(i), i, FALSE))

\* ------------------------------------------------------------ deactivation
\* deactivate(): statusBarManager.dispose(), then lockManager.cleanup().  The
\* subscriptions of activate() are disposed with it: from here on no editor
\* event, debug-session event or command reaches the extension.
Deactivate(i) ==
  /\ Ready(i) /\ ~disposed[i]
  /\ LET L == cleanup(stopMonitoring(Local(i)), i)
     IN /\ ApplyLocal(i, L)
        /\ acq' = [acq EXCEPT ![i] = L.call]
  /\ disposed' = [disposed EXCEPT ![i] = TRUE]
  /\ UNCHANGED <<live, listening, hideOthers, monitoring, commandUsers, debuggeesStay,
                 scanOverrun, autoAttachSetting, finds, lastRelease, discoveryVars>>

\* ------------------------------------------------- sessions and settings
\* A debug session of the window that no attach of the extension started.
OtherSession == "launch"

\* The user starts a debug session of their own (a launch configuration).
UserStartsSession(i) ==
  /\ Ready(i) /\ ~disposed[i] /\ OtherSession \notin sessions[i]
  /\ Apply(i, onDebugSessionStart([Local(i) EXCEPT !.sessions = @ \cup {OtherSession}]))

\* The debugpy.toggleAutoAttach command: the setting is flipped and
\* restartMonitoring applies it.
ToggleAutoAttach(i) ==
  /\ Ready(i) /\ ~disposed[i]
  /\ autoAttachSetting' = ~autoAttachSetting
  /\ LET L == restartMonitoring(markUserActivity(Local(i)), monitoring[i],
                                ~autoAttachSetting)
     IN /\ ApplyLocal(i, L)
        /\ acq' = [acq EXCEPT ![i] = L.call]
  /\ UNCHANGED <<live, listening, hideOthers, monitoring, commandUsers, disposed,
                 debuggeesStay, scanOverrun, finds, lastRelease, discoveryVars>>

\* The user edits debugpyAttacher.autoAttach in the settings: the handler of
\* onDidChangeConfiguration has no branch for this setting.
ConfigChanged ==
  /\ autoAttachSetting' = ~autoAttachSetting
  /\ UNCHANGED <<live, listening, hideOthers, monitoring, commandUsers, disposed,
                 debuggeesStay, scanOverrun, finds, lockVars, engineVars, discoveryVars>>

\* ------------------------------------------------------------------ the clock
Older(n, cap) == Min(n + 1, cap)
\* One second passes.  A due timer fires before it does, and a synchronous
\* tryAcquirePortLock call takes no time.
ClockTick ==
  /\ \A i \in live : /\ ~acq[i].active
                     /\ \A t \in releaseTimers[i] : t.left > 0
                     /\ \A t \in restartAutoAttachTimeout[i] : t.left > 0
  /\ lockDir' = [u \in Users |->
                   {[e EXCEPT !.age = Older(@, StaleThreshold + 1)] : e \in lockDir[u]}]
  /\ heartbeat' = [i \in Instances |->
                     IF i \in live THEN Older(heartbeat[i], ActivityWindow + 1)
                     ELSE heartbeat[i]]
  /\ releaseTimers' = [i \in Instances |->
                         {[t EXCEPT !.left = @ - 1] : t \in releaseTimers[i]}]
  /\ restartAutoAttachTimeout' = [i \in Instances |->
                         {[t EXCEPT !.left = @ - 1] : t \in restartAutoAttachTimeout[i]}]
  /\ UNCHANGED <<worldVars, finds, discoveryVars, acq, lastRelease,
                 checkInterval, debugSessionActive, isAutoAttaching, autoAttachInterval,
                 armed, attachedPorts, connectingPorts, ticks, status, manual, sessions>>

\* ---------------------------------------------------------------- initial states
NoDiscovery ==
  /\ platform = "linux"
  /\ psOutput = [err |-> FALSE, lines |-> <<>>]
  /\ launchConfigs = <<>>
  /\ lsofOutput = [p \in Ports |-> [err |-> FALSE, lines |-> <<>>]]
  /\ psProcesses = Pending /\ lsofProcesses = Pending /\ processes = Pending

\* Every live window has just been activated: startMonitoring has marked user
\* activity, its updateStatusBar has shown the status bar item, and, with
\* debugpyAttacher.autoAttach on, it has started auto-attach, whose immediate
\* tryAutoAttach awaits its discovery.
Activated(autoAttach) ==
  /\ autoAttachSetting = autoAttach
  /\ disposed = [i \in Instances |-> FALSE]
  /\ checkInterval = [i \in Instances |-> monitoring[i] /\ i \in live]
  /\ heartbeat = [i \in Instances |-> 0]
  /\ acq = [i \in Instances |-> NoCall]
  /\ lastRelease = ""
  /\ finds = 0
  /\ debugSessionActive = [i \in Instances |-> FALSE]
  /\ isAutoAttaching = [i \in Instances |-> autoAttach /\ i \in live]
  /\ autoAttachInterval = [i \in Instances |-> autoAttach /\ i \in live]
  /\ armed = [i \in Instances |->
                [auto |-> IF autoAttach /\ i \in live THEN 1 ELSE 0,
                 check |-> IF monitoring[i] /\ i \in live THEN 1 ELSE 0]]
  /\ restartAutoAttachTimeout = [i \in Instances |-> {}]
  /\ attachedPorts = [i \in Instances |-> {}]
  /\ connectingPorts = [i \in Instances |-> {}]
  /\ ticks = [i \in Instances |-> [k \in 1..TickSlots |->
                IF autoAttach /\ i \in live /\ k = 1 THEN [IdleTick EXCEPT !.phase = "discover"]
                ELSE IdleTick]]
  /\ status = [i \in Instances |-> "idle"]
  /\ manual = [i \in Instances |-> IdleManual]
  /\ releaseTimers = [i \in Instances |-> {}]
  /\ sessions = [i \in Instances |-> {}]

\* A lock entry a killed window of alice left behind, found stale.
LeftBehind == [name |-> LockName(DeadInstance, "5678"), port |-> "5678",
               owner |-> DeadInstance, age |-> StaleThreshold + 1]

\* Two windows of alice; a window of alice alone, whose user also attaches by
\* hand; a window of alice and one of bob, who has switched the other-user
\* filter off.
Init ==
  /\ \/ /\ live = {"w1", "w2"}
        /\ hideOthers = [i \in Instances |-> TRUE]
        /\ monitoring = [i \in Instances |-> FALSE]
        /\ commandUsers = {}
        /\ debuggeesStay = FALSE
        /\ scanOverrun = FALSE
        /\ listening = [p \in Ports |-> IF p = "5678" THEN "alice" ELSE "none"]
        /\ lockDir = [u \in Users |-> {}]
     \/ /\ live = {"w1"}
        /\ hideOthers = [i \in Instances |-> FALSE]
        /\ monitoring = [i \in Instances |-> TRUE]
        /\ commandUsers = {"w1"}
        /\ debuggeesStay = FALSE
        /\ scanOverrun = FALSE
        /\ listening = [p \in Ports |-> IF p = "5679" THEN "bob" ELSE "none"]
        /\ lockDir = [u \in Users |-> {}]
     \/ /\ live = {"w1", "w3"}
        /\ hideOthers = [i \in Instances |-> FALSE]
        /\ monitoring = [i \in Instances |-> FALSE]
        /\ commandUsers = {}
        /\ debuggeesStay = FALSE
        /\ scanOverrun = FALSE
        /\ listening = [p \in Ports |-> IF p = "5678" THEN "alice" ELSE "none"]
        /\ lockDir = [u \in Users |-> {}]
  /\ Activated(TRUE)
  /\ NoDiscovery

Next ==
  \/ ClockTick
  \/ \E i \in Instances :
       \/ UserActivity(i)
       \/ AutoAttachTimerFires(i)
       \/ StatusTimerFires(i)
       \/ StatusDiscoveryResolves(i)
       \/ AcquireCreate(i)
       \/ AcquireJudge(i)
       \/ AcquireUnlink(i)
       \/ AcquireRecreate(i)
       \/ AcquireReturns(i)
       \/ \E port \in Ports : SessionEnds(i, port)
       \/ \E t \in releaseTimers[i] : ReleaseTimerFires(i, t)
       \/ \E t \in restartAutoAttachTimeout[i] : RestartTimeoutFires(i, t)
       \/ AttachCommand(i)
       \/ ManualDiscoveryResolves(i)
       \/ QuickPick(i)
       \/ WarnAnswered(i)
       \/ ConfirmAnswered(i)
       \/ ManualSessionStarts(i)
       \/ ManualAttachSucceeds(i)
       \/ ManualAttachFails(i)
       \/ \E k \in 1..MaxTicks :
            \/ TickDiscoveryResolves(i, k)
            \/ AutoSessionStarts(i, k)
            \/ AutoAttachSucceeds(i, k)
            \/ AutoAttachFails(i, k)

Spec == Init /\ [][Next]_vars

\* =====================================================================
\* The lock manager under arbitrary callers
\* =====================================================================
\* Two windows of alice whose lock managers are called in any order, over a
\* directory that is empty or holds the entry a killed window left behind.
ContendedPorts == {"5678"}

ApplyCall(i, L, found) ==
  /\ ApplyEngine(i, L)
  /\ acq' = [acq EXCEPT ![i] = L.call]
  /\ lastRelease' = found
  /\ UNCHANGED finds

CallTryAcquire(i, port) ==
  /\ Ready(i)
  /\ ApplyCall(i, BeginAcquire(Local(i), port, "api", 0), lastRelease)

CallRelease(i, port) ==
  /\ Ready(i)
  /\ LET there == EntriesNamed(lockDir[LockDirOf(i)], LockName(i, port))
     IN ApplyCall(i, releasePortLock(Local(i), i, port),
                  IF there = {} THEN "none"
                  ELSE IF \E e \in there : e.owner = i THEN "own" ELSE "foreign")

CallCleanup(i) ==
  /\ Ready(i) /\ \E e \in lockDir[LockDirOf(i)] : e.owner = i
  /\ ApplyCall(i, cleanup(Local(i), i), lastRelease)

InitLock ==
  /\ live = {"w1", "w2"}
  /\ hideOthers = [i \in Instances |-> TRUE]
  /\ monitoring = [i \in Instances |-> FALSE]
  /\ commandUsers = {}
  /\ debuggeesStay = FALSE
  /\ scanOverrun = FALSE
  /\ listening = [p \in Ports |-> "none"]
  /\ lockDir \in {[u \in Users |-> {}],
                  [u \in Users |-> IF u = "alice" THEN {LeftBehind} ELSE {}]}
  /\ Activated(FALSE)
  /\ NoDiscovery

NextLock ==
  \/ ClockTick
  \/ \E i \in Instances :
       \/ UserActivity(i)
       \/ \E port \in ContendedPorts : CallTryAcquire(i, port)
       \/ \E port \in ContendedPorts : CallRelease(i, port)
       \/ CallCleanup(i)
       \/ AcquireCreate(i)
       \/ AcquireJudge(i)
       \/ AcquireUnlink(i)
       \/ AcquireRecreate(i)
       \/ AcquireReturns(i)

SpecLock == InitLock /\ [][NextLock]_vars

\* ---------------------------------------------------------------------
\* Properties of the lock manager
\* ---------------------------------------------------------------------
SameDir(i, j) == i # j /\ LockDirOf(i) = LockDirOf(j)
Returning(i) == acq[i].active /\ acq[i].step = "return"
\* The entries of the directory of i that a call of i on port competes with.
Contended(i, port) == EntriesNamed(lockDir[LockDirOf(i)], LockName(i, port))
\* Instance i takes a step of its tryAcquirePortLock call.
CallStep(i) == acq[i].active /\ acq'[i].step # acq[i].step

\* C1: two tryAcquirePortLock calls of different holders of one lock directory
\* that are in progress on the same port together do not both return true,
\* unless the reclaim of an entry judged stale has deleted the port's entry
\* while one of them was in progress.
C1_OneWinner ==
  \A i, j \in live :
    (SameDir(i, j) /\ Returning(i) /\ Returning(j) /\ acq[i].port = acq[j].port
       /\ acq[i].ok /\ acq[j].ok)
      => (acq[i].raced \/ acq[j].raced)

\* Two calls on the same port are returning together: one has created the
\* entry, the other has found it and not judged it stale.
C1_WinnerAndLoser ==
  \E i, j \in live :
    /\ SameDir(i, j) /\ Returning(i) /\ Returning(j) /\ acq[i].port = acq[j].port
    /\ acq[i].ok /\ acq[i].path = "created" /\ ~acq[i].raced
    /\ ~acq[j].ok /\ acq[j].path = "held" /\ ~acq[j].raced

Reclaiming(i) ==
  /\ acq[i].active
  /\ \/ acq[i].step \in {"unlink", "recreate"}
     \/ /\ acq[i].step = "judge"
        /\ \E e \in Contended(i, acq[i].port) :
             e.owner # i /\ IsStale(e, lockDir[LockDirOf(i)])
\* The call of i returns true over a fresh entry of its own.
Reclaimed(i) ==
  /\ acq'[i].step = "return" /\ acq'[i].ok
  /\ NewEntry(i, acq[i].port) \in lockDir'[LockDirOf(i)]

\* C7 as stated: a tryAcquirePortLock call that finds the entry of another
\* holder older than the threshold, with no heartbeat inside the recency
\* window, always goes on to return true over a fresh entry of its own.
C7_AlwaysReclaimed ==
  [][\A i \in live :
       (CallStep(i) /\ Reclaiming(i))
         => (acq'[i].step \in {"unlink", "recreate"} \/ Reclaimed(i))]_vars

\* C7 as amended: such a call goes on to return true over a fresh entry of its
\* own unless one of its filesystem operations fails (the entry already
\* removed, or the name already created again, by a concurrent acquirer
\* included); it then returns false and changes nothing in that step.
C7_ReclaimedUnlessFsFails ==
  [][\A i \in live :
       (CallStep(i) /\ Reclaiming(i))
         => \/ acq'[i].step = "unlink" /\ lockDir' = lockDir
            \/ /\ acq'[i].step = "recreate"
               /\ Contended(i, acq[i].port) # {}
               /\ lockDir'[LockDirOf(i)] = lockDir[LockDirOf(i)] \ Contended(i, acq[i].port)
            \/ Reclaimed(i)
            \/ /\ acq'[i].step = "return" /\ ~acq'[i].ok /\ acq'[i].path = "fserror"
               /\ lockDir' = lockDir]_vars

\* A call has returned true by reclaiming the entry a killed window left behind.
C7_TookOver ==
  \E i \in live :
    /\ Returning(i) /\ acq[i].ok /\ acq[i].path = "reclaimed"
    /\ NewEntry(i, acq[i].port) \in lockDir[LockDirOf(i)]

\* C9: releasePortLock is idempotent, and it changes nothing when the port has
\* no entry or the entry belongs to another holder.
C9_ReleaseIdempotentAndSafe ==
  \A i \in live, port \in Ports :
    LET L == Local(i)
        once == releasePortLock(L, i, port)
    IN /\ releasePortLock(once, i, port) = once
       /\ (\A e \in Contended(i, port) : e.owner # i) => once = L
       /\ \A e \in L.dir : (e.port # port \/ e.owner # i) => e \in once.dir

\* releasePortLock has been called on a port whose entry another live window
\* holds, and the entry is still there.
C9_ForeignRelease ==
  /\ lastRelease = "foreign"
  /\ \E i, j \in live : i # j /\ \E e \in Contended(i, "5678") : e.owner = j

\* ---------------------------------------------------------------------
\* Properties of the attach flows over the lock
\* ---------------------------------------------------------------------
SameUser(i, j) == i # j /\ UserOf(i) = UserOf(j)
\* The ports for which instance i has called startDebugging and awaits the outcome.
InFlight(i) ==
  {ticks[i][k].port : k \in {m \in 1..MaxTicks : ticks[i][m].phase \in {"attaching", "started"}}}
  \cup (IF manual[i].phase \in {"attaching", "started"}
        THEN {manual[i].proc[1].port} ELSE {})
\* Instance i calls startDebugging for port in this step.
Dispatches(i, port) == port \notin InFlight(i) /\ port \in InFlight(i)'

\* C2: no two instances of the same user have an attach request in flight for
\* the same port at the same time.
C2_OneAttachInFlight ==
  \A i, j \in live : SameUser(i, j) => InFlight(i) \cap InFlight(j) = {}

\* C3: while an instance has an active debug session on a port, no other
\* instance of the same user dispatches an attach request for that port.
C3_NoAttachWhileDebugged ==
  [][\A i, j \in live, port \in Ports :
       (SameUser(i, j) /\ port \in sessions[i]) => ~Dispatches(j, port)]_vars

\* C4 as stated: for every port the lock directories of all users together
\* hold at most one entry that is not stale.
C4_OneLiveEntryOnHost ==
  \A port \in Ports :
    Cardinality({e \in UNION {lockDir[u] : u \in Users} :
                   e.port = port /\ ~IsStale(e, lockDir[LockDirOf(e.owner)])}) <= 1

\* C4 as amended: for every port, the lock directory of each user holds at
\* most one entry.
C4_OneEntryPerUserDir ==
  \A u \in Users, port \in Ports :
    Cardinality({e \in lockDir[u] : e.port = port}) <= 1

\* A window has found the port's entry held by another window of its user and
\* returns false, the directory still holding that one entry.
C4_SecondHolderRefused ==
  \E i, j \in live :
    /\ SameUser(i, j) /\ Returning(i) /\ ~acq[i].ok /\ acq[i].path = "held"
    /\ \E e \in Contended(i, acq[i].port) : e.owner = j

\* The identities of the entries of a directory.
Ident(dir) == {[name |-> e.name, owner |-> e.owner] : e \in dir}
\* The directory of user u gains, loses or has replaced an entry in this step.
Touched(u) ==
  \/ Ident(lockDir'[u]) # Ident(lockDir[u])
  \/ \E e \in lockDir[u], f \in lockDir'[u] : f.name = e.name /\ f.age < e.age
\* Nothing of instance j runs in this step.
Still(j) ==
  /\ acq'[j] = acq[j] /\ ticks'[j] = ticks[j] /\ manual'[j] = manual[j]
  /\ status'[j] = status[j] /\ heartbeat'[j] = heartbeat[j]
  /\ releaseTimers'[j] = releaseTimers[j]
  /\ restartAutoAttachTimeout'[j] = restartAutoAttachTimeout[j]
  /\ sessions'[j] = sessions[j] /\ debugSessionActive'[j] = debugSessionActive[j]
  /\ isAutoAttaching'[j] = isAutoAttaching[j]
  /\ autoAttachInterval'[j] = autoAttachInterval[j]

\* C5: a step in which an entry of the lock directory of user u is created,
\* replaced or removed is no step of an instance of another user, and the
\* entries of a user's directory are owned by that user's instances.
C5_OtherUsersUntouched ==
  [][\A u \in Users :
       /\ Touched(u) => \A j \in live : UserOf(j) # u => Still(j)
       /\ \A e \in lockDir'[u] : e.owner \in live => UserOf(e.owner) = u]_vars

\* Both users hold an entry for the same port, bob's the older one: alice's
\* window has acquired the port over bob's entry, which is still in place.
C5_BothUsersHold ==
  \E e \in lockDir["alice"], f \in lockDir["bob"] :
    e.port = f.port /\ e.age < f.age /\ UserOf(e.owner) = "alice" /\ UserOf(f.owner) = "bob"

\* C8: a filesystem failure makes tryAcquirePortLock return false, and in the
\* step in which a caller receives false it dispatches no attach request for
\* the port, schedules no release and leaves every lock directory unchanged.
C8_FailClosed ==
  [][\A i \in live :
       /\ (acq'[i].path = "fserror") => ~acq'[i].ok
       /\ (Returning(i) /\ ~acq[i].ok /\ CallStep(i))
            => /\ ~Dispatches(i, acq[i].port)
               /\ releaseTimers'[i] = releaseTimers[i]
               /\ lockDir' = lockDir]_vars

\* A manual attach is about to receive false for a port whose entry is held,
\* and nothing of it is in flight.
C8_RefusedCaller ==
  \E i \in live :
    /\ Returning(i) /\ ~acq[i].ok /\ acq[i].caller = "manual" /\ acq[i].path = "held"
    /\ Contended(i, acq[i].port) # {}

\* =====================================================================
\* One discovery cycle on its own
\* =====================================================================
ScanOutputs ==
  {[err |-> TRUE, lines |-> <<>>]}
  \cup {[err |-> FALSE, lines |-> l] : l \in SeqsUpTo(ScanLines, MaxLines)}
LsofOutputs ==
  {[err |-> TRUE, lines |-> <<>>]} \cup {[err |-> FALSE, lines |-> l] : l \in LsofReports}

otherVars == <<worldVars, finds, lockVars, engineVars, platform, psOutput, launchConfigs,
               lsofOutput>>

\* exec's callback of findProcessesViaPsCommand resolves the scan.
ScanResolves ==
  /\ ~psProcesses.done
  /\ psProcesses' = [done |-> TRUE,
                     list |-> findProcessesViaPsCommand(psOutput, DiscoveryUser)]
  /\ UNCHANGED <<otherVars, lsofProcesses, processes>>

\* Promise.all over the per-port lsof probes resolves.
ProbeResolves ==
  /\ ~lsofProcesses.done
  /\ lsofProcesses' = [done |-> TRUE,
                       list |-> findProcessesViaLsofFromLaunchConfig(
                                  platform, launchConfigs, lsofOutput, DiscoveryUser)]
  /\ UNCHANGED <<otherVars, psProcesses, processes>>

\* Promise.all of findPythonProcesses resolves and the two lists are merged.
MergeResolves ==
  /\ psProcesses.done /\ lsofProcesses.done /\ ~processes.done
  /\ processes' = [done |-> TRUE,
                   list |-> MergeProcesses(psProcesses.list, lsofProcesses.list)]
  /\ UNCHANGED <<otherVars, psProcesses, lsofProcesses>>

InitMerge ==
  /\ live = {}
  /\ hideOthers = [i \in Instances |-> TRUE]
  /\ monitoring = [i \in Instances |-> FALSE]
  /\ commandUsers = {}
  /\ debuggeesStay = FALSE
  /\ scanOverrun = FALSE
  /\ listening = [p \in Ports |-> "none"]
  /\ lockDir = [u \in Users |-> {}]
  /\ Activated(FALSE)
  /\ platform \in {"linux", "win32"}
  /\ psOutput \in (IF platform = "win32" THEN {[err |-> TRUE, lines |-> <<>>]} ELSE ScanOutputs)
  /\ launchConfigs \in SeqsUpTo(LaunchConfigs, MaxLines)
  /\ lsofOutput \in [Ports -> LsofOutputs]
  /\ psProcesses = Pending /\ lsofProcesses = Pending /\ processes = Pending

NextMerge == ScanResolves \/ ProbeResolves \/ MergeResolves

SpecMerge == InitMerge /\ [][NextMerge]_vars

\* C10: findPythonProcesses returns at most one entry per port; where the scan
\* and the probe both report a port, the scan's pid, user and isCurrentUser
\* survive under the provenance "ps"; every entry carries one provenance, "ps"
\* or "lsof".
C10_OnePerPortScanWins ==
  processes.done =>
    LET out == processes.list
    IN /\ \A a, b \in 1..Len(out) : a # b => out[a].port # out[b].port
       /\ \A q \in Range(psProcesses.list) :
            \E r \in Range(out) :
              /\ r.port = q.port /\ r.pid = q.pid /\ r.user = q.user
              /\ r.isCurrentUser = q.isCurrentUser /\ r.source = "ps"
       /\ \A r \in Range(out) : r.source \in {"ps", "lsof"}
       /\ \A r \in Range(out) :
            r.source = "lsof" => \E l \in Range(lsofProcesses.list) :
              /\ r.port = l.port /\ r.pid = l.pid /\ r.user = l.user
              /\ \A q \in Range(psProcesses.list) : q.port # r.port

\* The scan and the probe have reported the same port with different pids, and
\* the merge is done.
C10_Collision ==
  /\ processes.done
  /\ \E q \in Range(psProcesses.list), l \in Range(lsofProcesses.list) :
       q.port = l.port /\ q.pid # l.pid

\* The scan gave exec's callback an error or no output.
ScanFailed == psOutput.err \/ psOutput.lines = <<>>
\* The ports the launch configurations hint at, in probe order.
HintedPorts == getPortsFromLaunchConfig(launchConfigs, <<>>)
\* What the probe of port p alone gives: <<>> or one candidate.
ProbeOf(p) == checkPortWithLsof(lsofOutput[p], p, DiscoveryUser)
Tagged(list, source) ==
  [n \in 1..Len(list) |->
     [pid |-> list[n].pid, port |-> list[n].port, user |-> list[n].user,
      isCurrentUser |-> list[n].isCurrentUser, source |-> source]]

\* C11: a scan that errs or prints nothing contributes an empty list, and
\* findPythonProcesses then returns exactly the probe candidates; whatever
\* probes fail, every scan candidate is returned, and so is the candidate of
\* every other hinted port probed (unless the scan reported that port); a failed
\* probe contributes nothing; and once both strategies have settled, whatever
\* failed, findPythonProcesses resolves.
C11_DiscoveryIsolated ==
  /\ (psProcesses.done /\ ScanFailed) => psProcesses.list = <<>>
  /\ lsofProcesses.done =>
       /\ platform # "win32" =>
            \A p \in Range(HintedPorts) :
              ProbeOf(p) # <<>> => ProbeOf(p)[1] \in Range(lsofProcesses.list)
       /\ \A l \in Range(lsofProcesses.list) :
            ~lsofOutput[l.port].err /\ <<l>> = ProbeOf(l.port)
  /\ processes.done =>
       /\ ScanFailed => processes.list = Tagged(lsofProcesses.list, "lsof")
       /\ \A q \in Range(Tagged(psProcesses.list, "ps")) : q \in Range(processes.list)
       /\ \A l \in Range(Tagged(lsofProcesses.list, "lsof")) :
            (\A q \in Range(psProcesses.list) : q.port # l.port)
              => l \in Range(processes.list)
  /\ (psProcesses.done /\ lsofProcesses.done /\ ~processes.done) => ENABLED MergeResolves

\* The scan has failed and so has the probe of one hinted port, and the
\* cycle has returned the candidate the probe of another hinted port found.
C11_ScanAndOneProbeFail ==
  /\ processes.done /\ psOutput.err
  /\ \E p, q \in Range(HintedPorts) :
       /\ lsofOutput[p].err /\ ProbeOf(q) # <<>>
       /\ \E r \in Range(processes.list) : r.port = q /\ r.source = "lsof"

\* ---------------------------------------------------------------------
\* Properties of the auto-attach engine
\* ---------------------------------------------------------------------
\* A tick of instance i calls findPythonProcesses in this step.
TickDiscovers(i) ==
  \E k \in 1..MaxTicks : ticks[i][k].phase # "discover" /\ ticks'[i][k].phase = "discover"
\* A tick of instance i calls startDebugging in this step.
TickDispatches(i) ==
  \E k \in 1..MaxTicks : ticks[i][k].phase # "attaching" /\ ticks'[i][k].phase = "attaching"

\* C12: while debugSessionActive is true the auto-attach timer is not armed,
\* and no step taken from such a state (the timer's callback, a restart
\* timeout, a status refresh, a tick that was already under way) makes a tick
\* call findPythonProcesses or dispatch an attach.
C12_SessionGating ==
  [][\A i \in live :
       debugSessionActive[i] =>
         /\ ~autoAttachInterval[i]
         /\ ~TickDiscovers(i)
         /\ ~TickDispatches(i)]_vars

\* The restart timeout of an earlier session end is due while a later session
\* is active: startAutoAttach is about to be called with debugSessionActive true.
C12_RestartDueInSession ==
  \E i \in live :
    /\ debugSessionActive[i] /\ ~acq[i].active
    /\ \E t \in restartAutoAttachTimeout[i] : t.left = 0

\* =====================================================================
\* One window whose user runs two debuggees
\* =====================================================================
\* A window of alice with auto-attach on, both ports listening for alice, over
\* a lock directory that is empty or holds the entry a killed window left.
InitTick ==
  /\ live = {"w1"}
  /\ hideOthers = [i \in Instances |-> TRUE]
  /\ monitoring = [i \in Instances |-> FALSE]
  /\ commandUsers = {}
  /\ debuggeesStay = FALSE
  /\ scanOverrun = FALSE
  /\ listening = [p \in Ports |-> "alice"]
  /\ lockDir \in {[u \in Users |-> {}],
                  [u \in Users |-> IF u = "alice" THEN {LeftBehind} ELSE {}]}
  /\ Activated(TRUE)
  /\ NoDiscovery

NextTick ==
  \/ ClockTick
  \/ \E i \in Instances :
       \/ UserActivity(i)
       \/ AutoAttachTimerFires(i)
       \/ AcquireCreate(i)
       \/ AcquireJudge(i)
       \/ AcquireUnlink(i)
       \/ AcquireRecreate(i)
       \/ AcquireReturns(i)
       \/ \E port \in Ports : SessionEnds(i, port)
       \/ \E t \in releaseTimers[i] : ReleaseTimerFires(i, t)
       \/ \E t \in restartAutoAttachTimeout[i] : RestartTimeoutFires(i, t)
       \/ \E k \in 1..MaxTicks :
            \/ TickDiscoveryResolves(i, k)
            \/ AutoSessionStarts(i, k)
            \/ AutoAttachSucceeds(i, k)
            \/ AutoAttachFails(i, k)

SpecTick == InitTick /\ [][NextTick]_vars

\* The tick has called startDebugging and awaits its outcome.
Dispatched(t) == t.phase \in {"attaching", "started"}
\* The ports of the processes of a list.
PortsOf(list) == {list[n].port : n \in 1..Len(list)}

\* C13 as stated: a tick that has dispatched an attach evaluates no other port:
\* from the dispatch on it only awaits the outcome and ends.
C13_OneDispatchPerTick ==
  [][\A i \in live, k \in 1..MaxTicks :
       Dispatched(ticks[i][k]) => (Dispatched(ticks'[i][k]) \/ ticks'[i][k].phase = "idle")]_vars

\* The tryAcquirePortLock call tick k of instance i made is returning.
TickCallReturns(i, k) ==
  Returning(i) /\ acq[i].caller = "auto" /\ acq[i].slot = k

\* C13 as amended: a tick that discovers two or more new ports begins with
\* the first in discovery order; it works on one port at a time, the only
\* lock call it has running being for that port; a successful attach ends
\* it; and it goes on to tryAcquire the next port of its discovery result
\* only when tryAcquirePortLock has returned false or startDebugging has
\* failed, in which case the failed port's lock is released and the port is
\* no longer marked connecting.
C13_NextPortOnlyAfterFailure ==
  [][\A i \in live, k \in 1..MaxTicks :
       LET t == ticks[i][k]
           u == ticks'[i][k]
       IN /\ (t.phase = "discover" /\ u.phase = "acquire"
                /\ attachedPorts[i] = {} /\ connectingPorts[i] = {})
              => /\ Visible(i) # <<>>
                 /\ u.port = Head(Visible(i)).port
                 /\ u.rest = Tail(Visible(i))
          /\ t.phase \in {"acquire", "attaching", "started"}
              => /\ t.port \notin PortsOf(t.rest)
                 /\ (acq[i].active /\ acq[i].caller = "auto" /\ acq[i].slot = k)
                      => acq[i].port = t.port /\ t.phase = "acquire"
          /\ t.phase = "started" => u.phase \in {"started", "idle"}
          /\ (t.phase \in {"acquire", "attaching"} /\ u.phase \in {"acquire", "attaching"}
                /\ u.port # t.port)
              => /\ u.phase = "acquire" /\ u.port \in PortsOf(t.rest)
                 /\ t.port \notin PortsOf(u.rest)
                 /\ \/ t.phase = "acquire" /\ TickCallReturns(i, k) /\ ~acq[i].ok
                    \/ /\ t.phase = "attaching"
                       /\ \A e \in lockDir'[LockDirOf(i)] : ~(e.owner = i /\ e.port = t.port)
                 /\ t.port \notin connectingPorts'[i]]_vars

\* The attach for the first of two new ports of the user is pending and the
\* second port waits, unseen.
C13_FirstDispatchedSecondWaits ==
  \E i \in live, k \in 1..MaxTicks :
    /\ ticks[i][k].phase = "attaching" /\ ticks[i][k].port = "5678"
    /\ PortsOf(ticks[i][k].rest) = {"5679"}
    /\ connectingPorts[i] = {"5678"} /\ attachedPorts[i] = {}
    /\ \A e \in lockDir[LockDirOf(i)] : e.port = "5678" /\ e.owner = i

\* C14: in the step in which the attach a tick dispatched resolves
\* successfully the tick ends: it evaluates no further port (no tryAcquire
\* begins, no lock entry is created, no attach request is dispatched), also
\* when ports of its discovery result are still unvisited.
C14_SuccessEndsTick ==
  [][\A i \in live, k \in 1..MaxTicks :
       (ticks[i][k].phase = "started" /\ ticks'[i][k].phase # "started")
         => /\ ticks'[i][k] = IdleTick
            /\ \A m \in 1..MaxTicks : m # k => ticks'[i][m] = ticks[i][m]
            /\ ~acq'[i].active
            /\ InFlight(i)' \subseteq InFlight(i)
            /\ lockDir' = lockDir]_vars

\* The attach for the first port has started its session, which has already
\* ended again, and is about to resolve while the second port is unvisited
\* and no session gate is up.
C14_SuccessWithPortsLeft ==
  \E i \in live, k \in 1..MaxTicks :
    /\ ticks[i][k].phase = "started" /\ ticks[i][k].rest # <<>>
    /\ ~debugSessionActive[i] /\ sessions[i] = {}

\* C15: whatever hideProcessesFromOtherUsers is set to, a tick of the
\* auto-attach engine calls tryAcquirePortLock and startDebugging only for
\* ports whose listening process is owned by the window's user.
C15_AutoAttachOwnOnly ==
  \A i \in live, k \in 1..MaxTicks :
    ticks[i][k].phase \in {"acquire", "attaching", "started"}
      => listening[ticks[i][k].port] = UserOf(i)

\* The manual attach of instance i is about a process of another user.
ManualOnForeign(i) == manual[i].proc # <<>> /\ ~manual[i].proc[1].isCurrentUser
\* The bookkeeping of the engine of instance i is the same after this step.
BookkeepingKept(i) ==
  /\ attachedPorts'[i] = attachedPorts[i] /\ connectingPorts'[i] = connectingPorts[i]
  /\ debugSessionActive'[i] = debugSessionActive[i]
  /\ isAutoAttaching'[i] = isAutoAttaching[i]
  /\ autoAttachInterval'[i] = autoAttachInterval[i]
  /\ restartAutoAttachTimeout'[i] = restartAutoAttachTimeout[i]
  /\ ticks'[i] = ticks[i] /\ sessions'[i] = sessions[i]

\* C16: a manual attach calls tryAcquirePortLock for a process of another
\* user only out of the answered warning of the process selection, and calls
\* startDebugging for it only out of the answered confirmation of
\* attachToDebugger.  Declining the warning changes no lock directory, no
\* timer and no engine bookkeeping; declining the confirmation, with the lock
\* already taken, dispatches nothing and schedules the release of the port's
\* lock, and when that release runs no entry of the instance is left for the port.
C16_ForeignNeedsConfirmation ==
  [][\A i \in live :
       LET m == manual[i]
           n == manual'[i]
       IN /\ (n.phase = "acquire" /\ m.phase # "acquire" /\ ~n.proc[1].isCurrentUser)
              => m.phase = "warn" /\ m.proc = n.proc
          /\ (n.phase = "attaching" /\ m.phase # "attaching" /\ ~n.proc[1].isCurrentUser)
              => m.phase = "confirm" /\ m.proc = n.proc
          /\ (m.phase = "warn" /\ n.phase = "idle")
              => /\ lockDir' = lockDir /\ acq' = acq
                 /\ releaseTimers' = releaseTimers
                 /\ BookkeepingKept(i)
          /\ (m.phase = "confirm" /\ n.phase = "idle")
              => /\ lockDir' = lockDir /\ acq' = acq
                 /\ [port |-> m.proc[1].port, left |-> ReleaseGraceManual] \in releaseTimers'[i]
                 /\ BookkeepingKept(i)
          /\ \A t \in releaseTimers[i] \ releaseTimers'[i] :
               t.left = 0 =>
                 \A e \in lockDir'[LockDirOf(i)] : ~(e.owner = i /\ e.port = t.port)]_vars

\* The lock of another user's port is taken and attachToDebugger's
\* confirmation is showing: nothing has been dispatched.
C16_LockTakenAwaitingConfirmation ==
  \E i \in live :
    /\ manual[i].phase = "confirm" /\ ManualOnForeign(i)
    /\ \E e \in lockDir[LockDirOf(i)] : e.owner = i /\ e.port = manual[i].proc[1].port
    /\ manual[i].proc[1].port \notin InFlight(i)

\* =====================================================================
\* A window that is deactivated
\* =====================================================================
\* A window of alice with live monitoring and auto-attach on and a debuggee of
\* alice on one port; the extension is deactivated at any moment, after
\* which what was pending (timers, awaited discoveries and attaches) still runs.
InitShutdown ==
  /\ live = {"w1"}
  /\ hideOthers = [i \in Instances |-> TRUE]
  /\ monitoring = [i \in Instances |-> TRUE]
  /\ commandUsers = {}
  /\ debuggeesStay = FALSE
  /\ scanOverrun = FALSE
  /\ listening = [p \in Ports |-> IF p = "5678" THEN "alice" ELSE "none"]
  /\ lockDir \in {[u \in Users |-> {}],
                  [u \in Users |-> IF u = "alice" THEN {LeftBehind} ELSE {}]}
  /\ Activated(TRUE)
  /\ NoDiscovery

NextShutdown ==
  \/ ClockTick
  \/ \E i \in Instances :
       \/ Deactivate(i)
       \/ UserActivity(i)
       \/ AutoAttachTimerFires(i)
       \/ StatusTimerFires(i)
       \/ StatusDiscoveryResolves(i)
       \/ AcquireCreate(i)
       \/ AcquireJudge(i)
       \/ AcquireUnlink(i)
       \/ AcquireRecreate(i)
       \/ AcquireReturns(i)
       \/ \E port \in Ports : SessionEnds(i, port)
       \/ \E t \in releaseTimers[i] : ReleaseTimerFires(i, t)
       \/ \E t \in restartAutoAttachTimeout[i] : RestartTimeoutFires(i, t)
       \/ \E k \in 1..MaxTicks :
            \/ TickDiscoveryResolves(i, k)
            \/ AutoSessionStarts(i, k)
            \/ AutoAttachSucceeds(i, k)
            \/ AutoAttachFails(i, k)

SpecShutdown == InitShutdown /\ [][NextShutdown]_vars

\* C17: once the extension of an instance is deactivated, its status-refresh
\* timer, its auto-attach timer and every restart timeout are unarmed, and
\* remain so.
C17_NoTimerAfterDispose ==
  \A i \in live :
    disposed[i] => /\ ~checkInterval[i]
                   /\ ~autoAttachInterval[i]
                   /\ restartAutoAttachTimeout[i] = {}

\* C18: once the extension of an instance is deactivated, no lock directory
\* holds an entry of the instance and none of its tryAcquirePortLock calls runs.
C18_NoLockAfterDeactivation ==
  \A i \in live :
    disposed[i] => /\ \A e \in lockDir[LockDirOf(i)] : e.owner # i
                   /\ ~acq[i].active

\* ---------------------------------------------------------------------
\* Properties of the POSIX scan
\* ---------------------------------------------------------------------
ListenLine == <<"alice", "4821", "python", "-m", "debugpy", "--listen", "5678", "app.py">>

\* C19: when the scan prints the one line
\* `alice 4821 python -m debugpy --listen 5678 app.py`, the scan yields one
\* candidate with pid 4821, port 5678 and owner alice, which
\* findPythonProcesses returns with scan provenance.
C19_ListenFlagParsed ==
  /\ (psProcesses.done /\ ~psOutput.err /\ psOutput.lines = <<ListenLine>>)
       => psProcesses.list = << [pid |-> "4821", port |-> "5678", user |-> "alice",
                                 isCurrentUser |-> TRUE] >>
  /\ (processes.done /\ ~psOutput.err /\ psOutput.lines = <<ListenLine>>)
       => \E r \in Range(processes.list) :
            r.pid = "4821" /\ r.port = "5678" /\ r.user = "alice" /\ r.source = "ps"

\* The line has at least three fields and its command holds `--port` followed
\* by the digits port.
Flagged(line, port) ==
  /\ Len(line) >= 3 /\ port # "" /\ LeadingDigits(port) = port
  /\ \E k \in 3..(Len(line) - 1) : line[k] = "--port" /\ line[k + 1] = port
\* Line n of the scan output is the first one flagged with port.
FirstFlagged(lines, n, port) ==
  Flagged(lines[n], port) /\ \A m \in 1..(n - 1) : ~Flagged(lines[m], port)

\* C20: every candidate of the scan comes from the first line whose command
\* holds `--port <digits>` with the candidate's port, and carries that line's
\* user and pid; every such first line yields its candidate; lines without
\* the flag, lines of fewer than three fields and later lines repeating a
\* port yield nothing, so the candidates are as many as the flagged ports.
C20_PortFlagOnlyFirstWins ==
  (psProcesses.done /\ ~psOutput.err) =>
    LET lines == psOutput.lines
        out == psProcesses.list
        flaggedPorts == {port \in Ports : \E n \in 1..Len(lines) : Flagged(lines[n], port)}
    IN /\ \A c \in Range(out) :
            \E n \in 1..Len(lines) :
              /\ FirstFlagged(lines, n, c.port)
              /\ c.user = lines[n][1] /\ c.pid = lines[n][2]
              /\ c.isCurrentUser = (lines[n][1] = DiscoveryUser)
       /\ \A port \in flaggedPorts : \E c \in Range(out) : c.port = port
       /\ Len(out) = Cardinality(flaggedPorts)

\* The scan has printed two lines with `--port 5678`, of different processes,
\* and has yielded the candidate of the first only.
C20_RepeatedPortDropped ==
  /\ psProcesses.done /\ ~psOutput.err /\ Len(psOutput.lines) = 2
  /\ Flagged(psOutput.lines[1], "5678") /\ Flagged(psOutput.lines[2], "5678")
  /\ psOutput.lines[1][2] # psOutput.lines[2][2]
  /\ Len(psProcesses.list) = 1 /\ psProcesses.list[1].pid = psOutput.lines[1][2]

\* ---------------------------------------------------------------------
\* Properties of the port probe
\* ---------------------------------------------------------------------
\* The ports of the launch configurations marked debugpyAttacher === true.
MarkedPorts ==
  {(IF c.connectPort # "" THEN c.connectPort ELSE c.port) :
     c \in {d \in Range(launchConfigs) : d.debugpyAttacher}} \ {""}
\* An output line that is marked LISTEN and has the three leading fields.
ListenerLine(line) == Len(line) >= 3 /\ \E k \in 1..Len(line) : line[k] = "(LISTEN)"
\* Line n is the first line after the header that is a listener line.
FirstListenerAt(lines, n) ==
  /\ n \in 2..Len(lines) /\ ListenerLine(lines[n])
  /\ \A m \in 2..(n - 1) : ~ListenerLine(lines[m])

\* C21: every probe candidate's port is a port of a marked launch
\* configuration; there is at most one candidate per port; the candidate of
\* a port carries the pid (field 2) and owner (field 3) of the first listener
\* line after the header of that port's lsof output, whatever command that
\* line names; on POSIX every marked port with such a line has its candidate;
\* on Windows the probe returns nothing whatever lsof would print.
C21_ProbeConfirmsHintedPorts ==
  lsofProcesses.done =>
    LET out == lsofProcesses.list
    IN /\ \A l \in Range(out) : l.port \in MarkedPorts
       /\ \A a, b \in 1..Len(out) : a # b => out[a].port # out[b].port
       /\ \A l \in Range(out) :
            /\ ~lsofOutput[l.port].err
            /\ \E n \in 1..Len(lsofOutput[l.port].lines) :
                 /\ FirstListenerAt(lsofOutput[l.port].lines, n)
                 /\ l.pid = lsofOutput[l.port].lines[n][2]
                 /\ l.user = lsofOutput[l.port].lines[n][3]
                 /\ l.isCurrentUser = (l.user = DiscoveryUser)
       /\ platform # "win32" =>
            \A p \in MarkedPorts :
              (~lsofOutput[p].err /\ \E n \in 1..Len(lsofOutput[p].lines) :
                                      FirstListenerAt(lsofOutput[p].lines, n))
                => \E l \in Range(out) : l.port = p
       /\ platform = "win32" => out = <<>>

\* The probe has confirmed a hinted port by a line of docker-proxy run by
\* root, while an unmarked configuration names a port with a listener that
\* the probe has not reported.
C21_ForeignListenerUnmarkedSkipped ==
  /\ lsofProcesses.done
  /\ \E l \in Range(lsofProcesses.list) : l.pid = "3310" /\ l.user = "root"
  /\ \E c \in Range(launchConfigs) :
       /\ ~c.debugpyAttacher /\ c.connectPort \notin MarkedPorts
       /\ ProbeOf(c.connectPort) # <<>>

\* ---------------------------------------------------------------------
\* The bookkeeping of a resolved attach
\* ---------------------------------------------------------------------
\* The startDebugging call of tick k of instance i resolves true in this step.
ResolvesTrue(i, k) == ticks[i][k].phase = "started" /\ ticks'[i][k].phase = "idle"
\* The startDebugging call of tick k of instance i resolves false or rejects.
ResolvesFalse(i, k) == ticks[i][k].phase = "attaching" /\ ticks'[i][k].phase # "started"
                         /\ ticks'[i][k] # ticks[i][k]

\* C28: when the attach of a tick resolves true while the port's session is
\* running, the port is a member of attachedPorts as the tick returns.
C28_AttachedWhenTickReturns ==
  [][\A i \in live, k \in 1..MaxTicks :
       (ResolvesTrue(i, k) /\ ticks[i][k].port \in sessions'[i])
         => ticks[i][k].port \in attachedPorts'[i]]_vars

\* No entry for the port is in the lock directory of instance i's user.
LockFree(i, port) == \A e \in lockDir[LockDirOf(i)] : e.port # port
\* The findPythonProcesses call of tick k of instance i resolves in this step
\* with the debuggees the window can see.
DiscoversDebuggees(i, k) ==
  ticks[i][k].phase = "discover" /\ ticks'[i][k].phase # "discover" /\ finds' = finds + 1

\* C29: when the attach request of a tick for port p resolves false or
\* rejects, then in the same step, before the tick has made any call for the
\* next port, the instance's lock entry for p is gone and p is in neither
\* attachedPorts nor connectingPorts; and a tick whose discovery finds the
\* debuggees while no session is active takes up every found port that is
\* neither attached nor connecting, a port that failed before included: the
\* tick acquires its lock first or keeps it on its list of ports to evaluate.
C29_FailedPortReleasedAndRetried ==
  [][\A i \in live, k \in 1..MaxTicks :
       LET t == ticks[i][k]
           u == ticks'[i][k]
       IN /\ ResolvesFalse(i, k)
              => /\ \A e \in lockDir'[LockDirOf(i)] : ~(e.owner = i /\ e.port = t.port)
                 /\ t.port \notin attachedPorts'[i]
                 /\ t.port \notin connectingPorts'[i]
                 /\ u.phase = "acquire"
                      => /\ u.port # t.port
                         /\ acq'[i].active /\ acq'[i].step = "create"
                         /\ acq'[i].port = u.port
          /\ (DiscoversDebuggees(i, k) /\ ~debugSessionActive[i] /\ sessions[i] = {})
              => \A port \in PortsOf(Visible(i)) \ (attachedPorts[i] \cup connectingPorts[i]) :
                   /\ u.phase = "acquire"
                   /\ u.port = port \/ port \in PortsOf(u.rest)]_vars

\* A tick has gone on from 5678 to 5679 after a failure on 5678: the lock of
\* 5678 is free again, 5678 is neither attached nor connecting, and the
\* tick's attach for 5679 is pending.
C29_MovedOnFromFailedPort ==
  \E i \in live, k \in 1..MaxTicks :
    /\ ticks[i][k].phase = "attaching" /\ ticks[i][k].port = "5679"
    /\ sessions[i] = {} /\ ~debugSessionActive[i]
    /\ LockFree(i, "5678")
    /\ "5678" \notin attachedPorts[i] \cup connectingPorts[i]
    /\ PortsOf(Visible(i)) = {"5678", "5679"}

\* ---------------------------------------------------------------------
\* Isolation of failures within a tick
\* ---------------------------------------------------------------------
\* tryAcquirePortLock returns false to tick k of instance i in this step.
AcquireFails(i, k) ==
  ticks[i][k].phase = "acquire" /\ TickCallReturns(i, k) /\ ~acq[i].ok
                                /\ ticks'[i][k] # ticks[i][k]
\* The ports of a list that a tick of instance i would not skip.
Candidates(i, list) == PortsOf(list) \ (attachedPorts[i] \cup connectingPorts[i])
\* The list from its first process on a port of the set.
RECURSIVE From(_, _)
From(list, ports) ==
  IF list = <<>> \/ Head(list).port \in ports THEN list ELSE From(Tail(list), ports)

\* C30: when tryAcquirePortLock returns false to a tick, or its attach
\* request resolves false or rejects, and no debug session is active, the
\* tick goes on in the same step with the first later port of its discovery
\* result that is neither attached nor connecting and keeps every port after
\* that one on its list; it ends only when no such port is left.
C30_FailureIsolatedPerPort ==
  [][\A i \in live, k \in 1..MaxTicks :
       LET t == ticks[i][k]
           u == ticks'[i][k]
           cand == Candidates(i, t.rest)
           next == From(t.rest, cand)
       IN ((AcquireFails(i, k) \/ ResolvesFalse(i, k))
             /\ ~debugSessionActive[i] /\ sessions[i] = {})
            => IF cand = {} THEN u.phase = "idle"
               ELSE /\ u.phase = "acquire"
                    /\ u.port = Head(next).port
                    /\ u.rest = Tail(next)]_vars

\* The lock of 5678 is still held for the grace period of an earlier attach,
\* so tryAcquirePortLock has returned false for 5678 to the running tick,
\* which has gone on to 5679 and dispatched its attach.
C30_SecondPortAfterLockRefused ==
  \E i \in live, k \in 1..MaxTicks :
    /\ ticks[i][k].phase = "attaching" /\ ticks[i][k].port = "5679"
    /\ sessions[i] = {} /\ ~debugSessionActive[i]
    /\ \E e \in lockDir[LockDirOf(i)] : e.owner = i /\ e.port = "5678"
    /\ \E r \in releaseTimers[i] : r.port = "5678"
    /\ "5678" \notin attachedPorts[i] \cup connectingPorts[i]

\* =====================================================================
\* One window whose user starts sessions and changes the setting
\* =====================================================================
\* A window of alice with live monitoring and auto-attach on and a debuggee
\* of alice on 5678; alice also starts debug sessions of her own, runs the
\* toggle command and edits the setting.
InitHost ==
  /\ live = {"w1"}
  /\ hideOthers = [i \in Instances |-> TRUE]
  /\ monitoring = [i \in Instances |-> TRUE]
  /\ commandUsers = {}
  /\ debuggeesStay = FALSE
  /\ scanOverrun = FALSE
  /\ listening = [p \in Ports |-> IF p = "5678" THEN "alice" ELSE "none"]
  /\ lockDir \in {[u \in Users |-> {}],
                  [u \in Users |-> IF u = "alice" THEN {LeftBehind} ELSE {}]}
  /\ Activated(TRUE)
  /\ NoDiscovery

NextHost ==
  \/ ClockTick
  \/ ConfigChanged
  \/ \E i \in Instances :
       \/ UserActivity(i)
       \/ AutoAttachTimerFires(i)
       \/ StatusTimerFires(i)
       \/ StatusDiscoveryResolves(i)
       \/ AcquireCreate(i)
       \/ AcquireJudge(i)
       \/ AcquireUnlink(i)
       \/ AcquireRecreate(i)
       \/ AcquireReturns(i)
       \/ UserStartsSession(i)
       \/ ToggleAutoAttach(i)
       \/ SessionEnds(i, OtherSession)
       \/ \E port \in Ports : SessionEnds(i, port)
       \/ \E t \in releaseTimers[i] : ReleaseTimerFires(i, t)
       \/ \E t \in restartAutoAttachTimeout[i] : RestartTimeoutFires(i, t)
       \/ \E k \in 1..MaxTicks :
            \/ TickDiscoveryResolves(i, k)
            \/ AutoSessionStarts(i, k)
            \/ AutoAttachSucceeds(i, k)
            \/ AutoAttachFails(i, k)

SpecHost == InitHost /\ [][NextHost]_vars

\* C26: in every state where the setting debugpyAttacher.autoAttach is
\* false, whichever way it got there, neither the auto-attach interval nor a
\* restart timeout is armed in any window.
C26_NoTimerWhileDisabled ==
  ~autoAttachSetting =>
    \A i \in live : ~autoAttachInterval[i] /\ restartAutoAttachTimeout[i] = {}

\* C27: in every state where the window has a debug session, started by the
\* extension or not, debugSessionActive is true and the auto-attach interval
\* is not armed.
C27_NoTimerInSession ==
  \A i \in live :
    sessions[i] # {} => debugSessionActive[i] /\ ~autoAttachInterval[i]

\* The cooldown of the latest onDebugSessionEnd of instance i has not elapsed.
InCooldown(i) == \E t \in restartAutoAttachTimeout[i] : t.held /\ t.left > 0

\* C24: while the restart timeout of the latest onDebugSessionEnd has not
\* run down, no tick of the engine calls findPythonProcesses or dispatches an
\* attach, whatever other timer fires meanwhile.
C24_NoTickInCooldown ==
  [][\A i \in live :
       InCooldown(i) => ~TickDiscovers(i) /\ ~TickDispatches(i)]_vars

\* =====================================================================
\* The auto-attach engine under fair scheduling
\* =====================================================================
\* The window of SpecTick with debuggees that keep listening on both ports and
\* a scan that finds them every time.
InitFair ==
  /\ live = {"w1"}
  /\ hideOthers = [i \in Instances |-> TRUE]
  /\ monitoring = [i \in Instances |-> FALSE]
  /\ commandUsers = {}
  /\ debuggeesStay = TRUE
  /\ scanOverrun = FALSE
  /\ listening = [p \in Ports |-> "alice"]
  /\ lockDir \in {[u \in Users |-> {}],
                  [u \in Users |-> IF u = "alice" THEN {LeftBehind} ELSE {}]}
  /\ Activated(TRUE)
  /\ NoDiscovery

\* The create of tryAcquirePortLock(port) by instance i does not fail with a
\* filesystem error.
CreateWorks(i, port) ==
  AcquireCreate(i) /\ acq[i].port = port /\ acq'[i].path # "fserror"

\* The event loop runs every due timer callback and every continuation whose
\* await has resolved: a synchronous tryAcquirePortLock call only delays
\* them, however often one is made.  A file operation returns, and the create
\* of a lock file that is tried again and again does not fail every time.
\* Time passes.  The host answers every startDebugging, with a session or
\* with a failure.  Nothing makes a debug session end, and nothing makes the
\* user touch the editor.
FairScheduling ==
  /\ SF_vars(ClockTick)
  /\ \A i \in {"w1"} :
       /\ SF_vars(AutoAttachTimerFires(i))
       /\ WF_vars(AcquireCreate(i))
       /\ \A port \in Ports : SF_vars(CreateWorks(i, port))
       /\ WF_vars(AcquireJudge(i))
       /\ WF_vars(AcquireUnlink(i))
       /\ WF_vars(AcquireRecreate(i))
       /\ WF_vars(AcquireReturns(i))
       /\ SF_vars(\E t \in releaseTimers[i] : ReleaseTimerFires(i, t))
       /\ SF_vars(\E t \in restartAutoAttachTimeout[i] : RestartTimeoutFires(i, t))
       /\ \A k \in 1..MaxTicks :
            /\ SF_vars(TickDiscoveryResolves(i, k))
            /\ SF_vars(AutoSessionStarts(i, k) \/ AutoAttachFails(i, k))
            /\ SF_vars(AutoAttachSucceeds(i, k))

SpecFair == InitFair /\ [][NextTick]_vars /\ FairScheduling

\* Auto-attach is enabled in window i, no debug session is active there, a
\* process of the window's user listens on the port, and the port's lock is free.
Eligible(i, port) ==
  /\ i \in live /\ ~disposed[i] /\ AutoAttachEnabled
  /\ ~debugSessionActive[i] /\ sessions[i] = {}
  /\ debuggeesStay /\ listening[port] = UserOf(i)
  /\ LockFree(i, port)

\* C22: under fair scheduling, a port that stays eligible for auto-attach in
\* a window has an attach request dispatched for it again and again: there is
\* no point from which the port is eligible for ever and never dispatched.
C22_EligibleEventuallyTried ==
  \A i \in {"w1"}, port \in Ports :
    []<>(~Eligible(i, port) \/ port \in InFlight(i))

\* C25: under fair scheduling, with auto-attach enabled and live monitoring
\* off, the engine resumes after a session ends: there is no point from which
\* the window has no debug session for ever and the auto-attach timer is
\* never armed, whatever the order of the session-start notification, the
\* session-end notification and the resolution of the attach call.
C25_EngineResumes ==
  \A i \in {"w1"} :
    []<>(sessions[i] # {} \/ autoAttachInterval[i])

\* The session of the attach request of tick k of instance i starts in this step.
OwnSessionStarts(i, k) ==
  ticks[i][k].phase = "attaching" /\ ticks'[i][k] = [ticks[i][k] EXCEPT !.phase = "started"]

\* C23: while debugSessionActive is true (from onDebugSessionStart to
\* onDebugSessionEnd) the auto-attach timer is not armed and no tick calls
\* findPythonProcesses or dispatches an attach.  An attach request that is
\* dispatched changes only by its own outcome, whatever handler runs
\* meanwhile, and under fair scheduling it gets that outcome; on failure the
\* instance's lock entry for the port is removed in the same step, on success
\* a release timer of the grace period is set, and a release timer that
\* fires removes the entry.
C23_SessionStartPausesEngine ==
  /\ [][\A i \in live :
          /\ debugSessionActive[i] =>
               ~autoAttachInterval[i] /\ ~TickDiscovers(i) /\ ~TickDispatches(i)
          /\ \A k \in 1..MaxTicks :
               LET t == ticks[i][k]
                   u == ticks'[i][k]
               IN /\ (Dispatched(t) /\ u # t)
                       => OwnSessionStarts(i, k) \/ ResolvesTrue(i, k) \/ ResolvesFalse(i, k)
                  /\ ResolvesFalse(i, k)
                       => \A e \in lockDir'[LockDirOf(i)] : ~(e.owner = i /\ e.port = t.port)
                  /\ ResolvesTrue(i, k)
                       => [port |-> t.port, left |-> ReleaseGraceAuto] \in releaseTimers'[i]
          /\ \A r \in releaseTimers[i] \ releaseTimers'[i] :
               r.left = 0
                 => \A e \in lockDir'[LockDirOf(i)] : ~(e.owner = i /\ e.port = r.port)]_vars
  /\ \A i \in {"w1"}, k \in 1..MaxTicks :
       Dispatched(ticks[i][k]) ~> (ticks[i][k].phase = "idle")

\* The session of a dispatched attach has started, debugSessionActive is
\* true, and the startDebugging call has not resolved yet.
C23_AttachPendingInSession ==
  \E i \in live, k \in 1..MaxTicks :
    /\ debugSessionActive[i] /\ ticks[i][k].phase = "started"
    /\ \E e \in lockDir[LockDirOf(i)] : e.owner = i /\ e.port = ticks[i][k].port

\* =====================================================================
\* Properties of the lock around an attach
\* =====================================================================
\* Instance i holds the lock entry of the port.
HoldsLock(i, port) == \E e \in lockDir[LockDirOf(i)] : e.owner = i /\ e.port = port
\* The manual flow of instance i calls startDebugging in this step.
ManualDispatches(i) == manual[i].phase # "attaching" /\ manual'[i].phase = "attaching"

\* Instance i calls releasePortLock(port) in this step: a release timer
\* fires, an attach of a tick fails, or a tick finds a session active after
\* its acquisition.
ReleaseCall(i, port) ==
  \/ \E r \in releaseTimers[i] \ releaseTimers'[i] : r.port = port /\ r.left = 0
  \/ \E k \in 1..MaxTicks :
       /\ ticks[i][k].port = port
       /\ \/ ResolvesFalse(i, k)
          \/ /\ TickCallReturns(i, k) /\ acq[i].ok /\ ~acq'[i].active
             /\ ticks'[i][k].phase # "attaching"
  \/ manual[i].phase = "attaching" /\ manual'[i].phase = "idle"
       /\ manual[i].proc[1].port = port

\* C31: a tick calls startDebugging for a port only in the step in which its
\* own tryAcquirePortLock call for that port returns true; the manual flow
\* calls it in that step or after the confirmation it asks for in between;
\* and while that confirmation is awaited, the instance makes no
\* releasePortLock call for the port.
C31_LockBeforeAttach ==
  [][\A i \in live :
       /\ \A k \in 1..MaxTicks :
            (ticks[i][k].phase # "attaching" /\ ticks'[i][k].phase = "attaching")
              => /\ TickCallReturns(i, k) /\ acq[i].ok
                 /\ acq[i].port = ticks'[i][k].port
       /\ ManualDispatches(i)
            => \/ /\ Returning(i) /\ acq[i].caller = "manual" /\ acq[i].ok
                  /\ acq[i].port = manual'[i].proc[1].port
               \/ manual[i].phase = "confirm"
       /\ manual[i].phase = "confirm" => ~ReleaseCall(i, manual[i].proc[1].port)]_vars

\* Instance i holds no entry for the port after this step.
Released(i, port) == \A e \in lockDir'[LockDirOf(i)] : ~(e.owner = i /\ e.port = port)
\* A release timer of the given delay is pending for the port after this step.
ReleaseArmed(i, port, delay) == [port |-> port, left |-> delay] \in releaseTimers'[i]

\* Something of instance i that ends in releasePortLock(port) is under way: its
\* tryAcquirePortLock call on the port is running, an attach of a tick or of
\* the manual flow on the port awaits the host, or a release timer of the port
\* is pending.
ReleasePending(i, port) ==
  \/ acq[i].active /\ acq[i].port = port
  \/ \E k \in 1..MaxTicks : Dispatched(ticks[i][k]) /\ ticks[i][k].port = port
  \/ /\ manual[i].phase \in {"confirm", "attaching", "started"}
     /\ manual[i].proc[1].port = port
  \/ \E r \in releaseTimers[i] : r.port = port

\* C32: every path from an acquisition ends in a release by the acquirer.  A
\* tick releases in the same step when its attach fails or when it finds a
\* session active after acquiring, and arms the 5 s release timer when its
\* attach succeeds; the manual flow releases in the same step when its attach
\* fails and arms the 1 s release timer when it succeeds or the confirmation
\* is declined; a release timer that fires removes the entry; and whenever an
\* instance holds an entry for a port, one of these is under way for the port,
\* so that the entry is gone once the host has answered and the timer fired.
C32_AcquiredLockReleased ==
  /\ [][\A i \in live :
          /\ \A k \in 1..MaxTicks :
               LET t == ticks[i][k]
               IN /\ ResolvesFalse(i, k) => Released(i, t.port)
                  /\ (/\ TickCallReturns(i, k) /\ acq[i].ok /\ ~acq'[i].active
                      /\ ticks'[i][k].phase # "attaching")
                       => Released(i, t.port)
                  /\ ResolvesTrue(i, k) => ReleaseArmed(i, t.port, ReleaseGraceAuto)
          /\ (manual[i].phase = "attaching" /\ manual'[i].phase = "idle")
               => Released(i, manual[i].proc[1].port)
          /\ (manual[i].phase \in {"started", "confirm"} /\ manual'[i].phase = "idle")
               => ReleaseArmed(i, manual[i].proc[1].port, ReleaseGraceManual)
          /\ \A r \in releaseTimers[i] \ releaseTimers'[i] :
               r.left = 0 => Released(i, r.port)]_vars
  /\ [](\A i \in live, port \in Ports : HoldsLock(i, port) => ReleasePending(i, port))

\* The manual attach has succeeded: its 1 s release timer is pending and the
\* window still holds the entry.
C32_HeldForGraceDelay ==
  \E i \in live : \E r \in releaseTimers[i] :
    /\ r.left = ReleaseGraceManual /\ HoldsLock(i, r.port)
    /\ r.port \in sessions[i] /\ manual[i].phase = "idle"

\* ---------------------------------------------------------------------
\* Attach requests of one instance
\* ---------------------------------------------------------------------
\* The manual flow of instance i has a startDebugging call outstanding.
ManualInFlight(i) == manual[i].phase \in {"attaching", "started"}

\* C33: an instance never has two attach requests in flight for one port:
\* neither two of its ticks, nor one of its ticks and its manual flow.
C33_OneRequestPerPort ==
  \A i \in live :
    /\ \A k \in 1..MaxTicks, m \in 1..MaxTicks :
         (k # m /\ Dispatched(ticks[i][k]) /\ Dispatched(ticks[i][m]))
           => ticks[i][k].port # ticks[i][m].port
    /\ \A k \in 1..MaxTicks :
         (Dispatched(ticks[i][k]) /\ ManualInFlight(i))
           => ticks[i][k].port # manual[i].proc[1].port

\* ---------------------------------------------------------------------
\* Ticks that overlap
\* ---------------------------------------------------------------------
\* One window of alice with two debuggees of hers, on a host whose scan may
\* outlast the retry interval: the interval's tick starts while the immediate
\* tick of startAutoAttach still awaits findPythonProcesses or its attach.
InitOverlap ==
  /\ live = {"w1"}
  /\ hideOthers = [i \in Instances |-> TRUE]
  /\ monitoring = [i \in Instances |-> FALSE]
  /\ commandUsers = {}
  /\ debuggeesStay = FALSE
  /\ scanOverrun = TRUE
  /\ listening = [p \in Ports |-> "alice"]
  /\ lockDir = [u \in Users |-> {}]
  /\ Activated(TRUE)
  /\ NoDiscovery

NextOverlap ==
  \/ ClockTick
  \/ \E i \in Instances :
       \/ UserActivity(i)
       \/ AutoAttachTimerFires(i)
       \/ AcquireCreate(i)
       \/ AcquireJudge(i)
       \/ AcquireUnlink(i)
       \/ AcquireRecreate(i)
       \/ AcquireReturns(i)
       \/ \E port \in Ports : SessionEnds(i, port)
       \/ \E t \in releaseTimers[i] : ReleaseTimerFires(i, t)
       \/ \E t \in restartAutoAttachTimeout[i] : RestartTimeoutFires(i, t)
       \/ \E k \in 1..TickSlots :
            \/ TickDiscoveryResolves(i, k)
            \/ AutoSessionStarts(i, k)
            \/ AutoAttachSucceeds(i, k)
            \/ AutoAttachFails(i, k)

SpecOverlap == InitOverlap /\ [][NextOverlap]_vars

\* C34: the engine of an instance never has two startDebugging calls
\* outstanding at once, whatever their ports: at most one of its ticks is
\* between its dispatch and the outcome.
C34_OneLaunchPerEngine ==
  \A i \in live : \A k \in 1..TickSlots, m \in 1..TickSlots :
    (Dispatched(ticks[i][k]) /\ Dispatched(ticks[i][m])) => k = m

\* =====================================================================
\* PythonProcessService: the scan on Windows.  A line of the scan's output
\* and a command line are sequences of characters.
\* =====================================================================
\* Longest command line of the scan's output, in words.
MaxWords == 3

Digit == {"0", "1", "2", "3", "4", "5", "6", "7", "8", "9"}
HighDigit == {"5", "6", "7", "8", "9"}
Letter == {"a", "b", "d", "e", "g", "h", "i", "l", "n", "o", "p", "r", "s", "t", "u",
           "x", "y", "A", "D"}
\* \w, \s
WordChar == Digit \cup Letter \cup {"_"}
Space == {" "}
\* null of String.match and of extractPort
NoMatch == <<>>

\* The literal lit stands in s at position n.
LitAt(s, n, lit) ==
  n + Len(lit) - 1 <= Len(s) /\ SubSeq(s, n, n + Len(lit) - 1) = lit
\* String.includes
Includes(s, lit) == \E n \in 1..Len(s) : LitAt(s, n, lit)
\* The length of the longest run of characters of class C that begins at n.
RECURSIVE RunLen(_, _, _)
RunLen(s, n, C) ==
  IF n > Len(s) THEN 0
  ELSE IF s[n] \notin C THEN 0
  ELSE 1 + RunLen(s, n + 1, C)
Leftmost(Starts) == CHOOSE a \in Starts : \A b \in Starts : a <= b

\* commandLine.match(/<flag>\s+(\d+)/): the capture of the leftmost match.
FlagMatch(s, flag) ==
  LET DigitsAt(n) == n + Len(flag) + RunLen(s, n + Len(flag), Space)
      Starts == {n \in 1..Len(s) : /\ LitAt(s, n, flag)
                                    /\ RunLen(s, n + Len(flag), Space) > 0
                                    /\ RunLen(s, DigitsAt(n), Digit) > 0}
  IN IF Starts = {} THEN NoMatch
     ELSE LET d == DigitsAt(Leftmost(Starts))
          IN SubSeq(s, d, d + RunLen(s, d, Digit) - 1)

\* commandLine.match(/:(\d{4,5})/)
ColonMatch(s) ==
  LET Starts == {n \in 1..Len(s) : s[n] = ":" /\ RunLen(s, n + 1, Digit) >= 4}
  IN IF Starts = {} THEN NoMatch
     ELSE LET n == Leftmost(Starts)
          IN SubSeq(s, n + 1, n + Min(5, RunLen(s, n + 1, Digit)))

\* commandLine.match(/\b(5\d{3}|6\d{3}|7\d{3}|8\d{3}|9\d{3})\b/)
BareMatch(s) ==
  LET Starts == {n \in 1..Len(s) : /\ s[n] \in HighDigit
                                    /\ RunLen(s, n + 1, Digit) >= 3
                                    /\ (n = 1 \/ s[n - 1] \notin WordChar)
                                    /\ (n + 3 = Len(s) \/ s[n + 4] \notin WordChar)}
  IN IF Starts = {} THEN NoMatch
     ELSE SubSeq(s, Leftmost(Starts), Leftmost(Starts) + 3)

PortFlag == <<"-", "-", "p", "o", "r", "t">>
ListenFlag == <<"-", "-", "l", "i", "s", "t", "e", "n">>
portMatches(commandLine) ==
  << FlagMatch(commandLine, PortFlag), FlagMatch(commandLine, ListenFlag),
     ColonMatch(commandLine), BareMatch(commandLine) >>

RECURSIVE FirstMatch(_)
FirstMatch(matches) ==
  IF matches = <<>> THEN NoMatch
  ELSE IF Head(matches) # NoMatch THEN Head(matches)
  ELSE FirstMatch(Tail(matches))

\* An extraction that lets the last pattern that matches win.
RECURSIVE LastMatch(_)
LastMatch(matches) ==
  IF matches = <<>> THEN NoMatch
  ELSE IF LastMatch(Tail(matches)) # NoMatch THEN LastMatch(Tail(matches))
  ELSE Head(matches)
extractPortLastMatch(commandLine) == LastMatch(portMatches(commandLine))

extractPort(commandLine) == FirstMatch(portMatches(commandLine))

\* String.split on a one-character separator
RECURSIVE Split(_, _, _)
Split(s, sep, part) ==
  IF s = <<>> THEN <<part>>
  ELSE IF Head(s) = sep THEN <<part>> \o Split(Tail(s), sep, <<>>)
  ELSE Split(Tail(s), sep, Append(part, Head(s)))
\* String.trim
RECURSIVE Trim(_)
Trim(s) ==
  IF s = <<>> THEN s
  ELSE IF Head(s) \in Space THEN Trim(Tail(s))
  ELSE IF s[Len(s)] \in Space THEN Trim(SubSeq(s, 1, Len(s) - 1))
  ELSE s
\* String.toLowerCase
LowerCase(s) == [n \in 1..Len(s) |-> IF s[n] = "A" THEN "a" ELSE IF s[n] = "D" THEN "d" ELSE s[n]]

Debugpy == <<"d", "e", "b", "u", "g", "p", "y">>
\* os.userInfo().username of the extension host on Windows
WindowsUser == <<"a", "l">>

\* parseWindowsProcess: <<>> for null, <<process>> otherwise.
parseWindowsProcess(line, seenPorts, currentUser) ==
  LET parts == Split(line, ",", <<>>)
  IN IF Len(parts) >= 3 /\ Includes(parts[3], Debugpy)
     THEN LET commandLine == parts[3]
              ownerWithDomain == Trim(parts[1])
              user == IF Includes(ownerWithDomain, <<"\\">>)
                      THEN Split(ownerWithDomain, "\\", <<>>)[2] ELSE ownerWithDomain
              pid == Trim(parts[2])
              port == extractPort(commandLine)
          IN IF /\ port # NoMatch
                /\ pid # <<>> /\ RunLen(pid, 1, Digit) = Len(pid)
                /\ port \notin seenPorts
             THEN << [pid |-> pid, port |-> port, user |-> user,
                      isCurrentUser |-> (LowerCase(user) = LowerCase(currentUser))] >>
             ELSE <<>>
     ELSE <<>>

RECURSIVE ParseWmic(_, _, _, _)
ParseWmic(lines, seenPorts, acc, currentUser) ==
  IF lines = <<>> THEN acc
  ELSE LET r == parseWindowsProcess(Head(lines), seenPorts, currentUser)
       IN IF r = <<>> THEN ParseWmic(Tail(lines), seenPorts, acc, currentUser)
          ELSE ParseWmic(Tail(lines), seenPorts \cup {r[1].port}, acc \o r, currentUser)

\* findProcessesViaPsCommand where process.platform is win32
findProcessesViaWmic(out, currentUser) ==
  IF out.err \/ out.lines = <<>> THEN <<>>
  ELSE ParseWmic(out.lines, {}, <<>>, currentUser)

\* ------------------------------------------------------------- its inputs
WindowsWords ==
  { Debugpy, PortFlag, ListenFlag,
    <<"5", "6", "7", "8">>,
    <<"8", "0">>,
    <<"h", ":", "5", "6", "7", "9">>,
    <<":", "1", "2", "3", "4", "5", "6">>,
    PortFlag \o <<"=", "9", "0", "0", "0">>,
    <<"x", "9", "0", "0", "0">>,
    <<"4", "3", "2", "1">> }
RECURSIVE Join(_)
Join(words) ==
  IF words = <<>> THEN <<>>
  ELSE IF Len(words) = 1 THEN words[1]
  ELSE words[1] \o <<" ">> \o Join(Tail(words))
CommandLines == {Join(w) : w \in SeqsUpTo(WindowsWords, MaxWords)}
Owners == {<<"a", "l">>, <<"D", "\\", "A", "l">>}
Pids == {<<" ", "7", "1">>, <<"x">>}
WmicLine(owner, pid, commandLine) == owner \o <<",">> \o pid \o <<",">> \o commandLine
WmicLines == {WmicLine(o, p, c) : o \in Owners, p \in Pids, c \in CommandLines}
\* A second line, of another process that names 5678.
OtherLine == WmicLine(<<"b">>, <<"9">>, Join(<<Debugpy, PortFlag, <<"5", "6", "7", "8">> >>))
WmicOutputs ==
  {[err |-> TRUE, lines |-> <<>>]}
  \cup {[err |-> FALSE, lines |-> <<l>>] : l \in WmicLines}
  \cup {[err |-> FALSE, lines |-> <<OtherLine, l>>] : l \in WmicLines}

\* exec's callback of findProcessesViaPsCommand resolves the scan on Windows.
WmicResolves ==
  /\ platform = "win32" /\ ~psProcesses.done
  /\ psProcesses' = [done |-> TRUE, list |-> findProcessesViaWmic(psOutput, WindowsUser)]
  /\ UNCHANGED <<otherVars, lsofProcesses, processes>>

InitWmic ==
  /\ live = {}
  /\ hideOthers = [i \in Instances |-> TRUE]
  /\ monitoring = [i \in Instances |-> FALSE]
  /\ commandUsers = {}
  /\ debuggeesStay = FALSE
  /\ scanOverrun = FALSE
  /\ listening = [p \in Ports |-> "none"]
  /\ lockDir = [u \in Users |-> {}]
  /\ Activated(FALSE)
  /\ platform = "win32"
  /\ psOutput \in WmicOutputs
  /\ launchConfigs = <<>>
  /\ lsofOutput = [p \in Ports |-> [err |-> FALSE, lines |-> <<>>]]
  /\ psProcesses = Pending /\ lsofProcesses = Pending /\ processes = Pending

NextWmic == WmicResolves

SpecWmic == InitWmic /\ [][NextWmic]_vars

\* The command line parseWindowsProcess hands to extractPort: the third
\* comma-separated field of the line.
CommandLineOf(line) == Split(line, ",", <<>>)[3]
\* The capture of pattern n (1: --port, 2: --listen, 3: colon, 4: bare number).
Capture(commandLine, n) == portMatches(commandLine)[n]
\* The scan of an output of one line has resolved on Windows.
ScannedLine ==
  platform = "win32" /\ psProcesses.done /\ ~psOutput.err /\ Len(psOutput.lines) = 1

\* C35: on Windows the port of a process is the capture of the first of the
\* four patterns, in the order --port, --listen, colon, bare number, that
\* matches in its command line: a pattern's capture is the port only if no
\* earlier pattern matches, and the process has no port only if none matches.
C35_FirstPatternWins ==
  ScannedLine =>
      LET line == psOutput.lines[1]
          c == CommandLineOf(line)
          port == extractPort(c)
          found == psProcesses.list
      IN /\ \A n \in 1..4 :
              (Capture(c, n) # NoMatch /\ \A m \in 1..(n - 1) : Capture(c, m) = NoMatch)
                => port = Capture(c, n)
         /\ (port = NoMatch) <=> (\A n \in 1..4 : Capture(c, n) = NoMatch)
         /\ found # <<>> => (found[1].port = port /\ port # NoMatch)
         /\ (found = <<>> /\ Includes(c, Debugpy) /\ Trim(Split(line, ",", <<>>)[2]) # <<"x">>)
              => port = NoMatch

\* A process found through the colon pattern while the bare-number pattern
\* matches another number of its command line.
C35_ColonBeforeBareNumber ==
  /\ ScannedLine /\ psProcesses.list # <<>>
  /\ LET c == CommandLineOf(psOutput.lines[1])
     IN /\ Capture(c, 1) = NoMatch /\ Capture(c, 2) = NoMatch
        /\ Capture(c, 3) # NoMatch /\ Capture(c, 4) # NoMatch
        /\ Capture(c, 3) # Capture(c, 4)
        /\ psProcesses.list[1].port = Capture(c, 3)

\* C36: from the dispatch of an attach request for a port until its outcome
\* the dispatching instance holds the port's lock entry.
C36_LockHeldWhileInFlight ==
  \A i \in live : \A port \in InFlight(i) : HoldsLock(i, port)

\* C37: of two tryAcquirePortLock calls of two instances of one user that are
\* in progress together on a port whose entry is stale, at most one returns
\* true by reclaiming the entry.
C37_OneReclaimer ==
  \A i, j \in live :
    (SameUser(i, j) /\ Returning(i) /\ Returning(j) /\ acq[i].port = acq[j].port)
      => ~(acq[i].ok /\ acq[j].ok /\ acq[i].path = "reclaimed" /\ acq[j].path = "reclaimed")

\* C38: in every reachable state of an instance isAutoAttaching is true
\* exactly when the auto-attach interval is armed, and the intervals set with
\* the host and not cleared are the ones the two handles refer to: one
\* auto-attach interval or none, one status-refresh interval or none.
C38_FlagMatchesInterval ==
  \A i \in live :
    /\ isAutoAttaching[i] <=> autoAttachInterval[i]
    /\ armed[i].auto = (IF autoAttachInterval[i] THEN 1 ELSE 0)
    /\ armed[i].check = (IF checkInterval[i] THEN 1 ELSE 0)

\* Auto-attach is on again after a session the extension attached has ended,
\* no restart timeout is left, and the status-refresh interval is armed.
C38_RestartedAfterSession ==
  \E i \in live :
    /\ isAutoAttaching[i] /\ armed[i].auto = 1 /\ armed[i].check = 1
    /\ restartAutoAttachTimeout[i] = {} /\ sessions[i] = {} /\ ~debugSessionActive[i]
    /\ \E port \in Ports : \E r \in releaseTimers[i] : r.port = port

\* Tick k of instance i is inside silentAttach for the port.
InSilentAttach(i, k, port) ==
  ticks[i][k].phase \in {"acquire", "attaching", "started"} /\ ticks[i][k].port = port

\* C39: connectingPorts holds no leftover entry: a port is in connectingPorts
\* only while a tick of the instance is inside silentAttach for it.
C39_NoLeftoverConnecting ==
  \A i \in live : \A port \in connectingPorts[i] :
    \E k \in 1..TickSlots : InSilentAttach(i, k, port)

\* An automatic attach to a port has just succeeded: its release timer is
\* fresh, no tick is inside silentAttach for the port and the port is not in
\* connectingPorts.
C39_ClearedAfterOutcome ==
  \E i \in live : \E r \in releaseTimers[i] :
    /\ r.left = ReleaseGraceAuto
    /\ r.port \notin connectingPorts[i]
    /\ \A k \in 1..TickSlots : ~InSilentAttach(i, k, r.port)

====
